---- MODULE Spec2Model ----
(***************************************************************************)
(* A model of conducto's pipeline launch (src/internal/build.py): build(), *)
(* launch_from_serialization(), run(), run_in_local_container() and        *)
(* clean_log_dirs(), together with the container runtime, the control      *)
(* plane and the local state directories they act on.                      *)
(***************************************************************************)
EXTENDS Integers, Sequences, FiniteSets, TLC

VARIABLES
    pc,             \* position of the launching process in build.py
    entry,          \* the function the caller entered: build or launch_from_serialization
    host,           \* hostdet: "unix", "wsl" or "windows"
    build_mode,     \* constants.BuildMode
    is_migration,   \* launch_from_serialization(is_migration=...)
    debug,          \* _manager_debug(): CONDUCTO_MANAGER_DEBUG
    own_image,      \* manager_image.startswith("conducto/")
    env_network,    \* os.getenv("CONDUCTO_NETWORK"): NoName when unset
    images,         \* image descriptors of the node graph, by image object
    available,      \* what docker_available_drives() returns on this host
    required_drives,\* build(): the drives the translated image paths use
    token,          \* the credential in use
    pipeline_id,    \* the PipelineId in use
    calls,          \* every call issued to a collaborator, in order, with its result
    dirs,           \* the subdirectories of the profile's local base directory
    files,          \* the directories that hold a serialization file
    pipeline_ids,   \* clean_log_dirs: the live ids the control plane listed
    rm_result,      \* clean_log_dirs: what rmtree did to each directory it was called on
    networks,       \* docker networks known to exist
    containers,     \* names of the running containers (what `docker ps` lists)
    net_result,     \* outcome of `docker network create`
    readiness,      \* ReadinessState of the manager
    polls,          \* iterations of the readiness loop so far
    resp,           \* the last status response of the readiness loop
    error,          \* the error raised to the caller
    handed,         \* what has been handed to the caller so far
    environ,        \* os.environ of the launching process: the variables set, by name
    inject_env,     \* run_in_local_container(inject_env=...), a dict
    mcpu,           \* _manager_cpu(): CONDUCTO_MANAGER_CPU
    docker_basedir, \* constants.ConductoPaths.get_local_docker_config_dir()
    flags,          \* the flags of `docker run` as run_in_local_container assembles them
    peers,          \* two launches of one pipeline side by side: where each one is
    stream,         \* node.stream(): the image object of each node, in traversal order
    drive_bitmask,  \* windll.kernel32.GetLogicalDrives()
    host_drives,    \* the letters wslpath resolves (WSL), the drives of type fixed (Windows)
    retries,        \* _get_credentials: failed attempts so far
    credentials,    \* what _get_credentials returned to _get_uri
    obj,            \* data: the object at `name` in the local backend
    tmp,            \* data: the temporary file of put/puts
    fd_open,        \* data: the descriptor mkstemp returned is still open
    registered,     \* pipelines the control plane lists for the user
    sharing         \* launches that share a profile: their positions

vars == <<pc, entry, host, build_mode, is_migration, debug, own_image, env_network,
          images, available, required_drives, token, pipeline_id, calls, dirs, files,
          pipeline_ids, rm_result, networks, containers, net_result, readiness,
          polls, resp, error, handed, environ, inject_env, mcpu, docker_basedir,
          flags, peers, stream, drive_bitmask, host_drives, retries,
          credentials, obj, tmp, fd_open, registered, sharing>>

(***************************************************************************)
(* Bounds and constants                                                    *)
(***************************************************************************)
\* int(WAIT_TIME_SECS / POLL_INTERVAL_SECS): the length of the readiness loop
MaxPolls == 2

\* constants.ManagerAppParams.WAIT_TIME_SECS ("wait 45 seconds")
WAIT_TIME_SECS == 45

Hosts == {"unix", "wsl", "windows"}
BuildMode == {"DEPLOY_TO_CLOUD", "LOCAL"}
Drives == {"c", "d"}

\* Pipeline ids are character sequences, so that one name can occur inside another.
IdA == <<"a">>
IdAB == <<"a", "b">>
IdC == <<"c">>
NewIds == {IdA, IdAB}
DirNames == {IdA, IdAB, IdC}

NoId == <<>>
NoName == <<>>
NoToken == "none"
\* a dict without keys; None for a directory
NoEnviron == <<>>
NoDir == "None"
\* a launch on its own
NoPeers == <<>>
\* a launch with the profile to itself
NoSharing == <<>>
\* _get_credentials has not returned
NoCredentials == "pending"
NoPath == [drive |-> "", sub |-> FALSE, form |-> "none"]

HostPath(d, s) == [drive |-> d, sub |-> s, form |-> "host"]

\* The image descriptors a launch is tried on (copy_dir, context, dockerfile).
ImageInputs ==
    { [copy_dir |-> NoPath, context |-> NoPath, dockerfile |-> NoPath],
      [copy_dir |-> NoPath, context |-> HostPath("c", FALSE), dockerfile |-> NoPath],
      [copy_dir |-> HostPath("c", FALSE), context |-> HostPath("c", TRUE),
       dockerfile |-> HostPath("d", FALSE)],
      [copy_dir |-> HostPath("d", TRUE), context |-> NoPath, dockerfile |-> NoPath] }

\* the node graph of a launch: two nodes that share one image object
NodeImages == <<1, 1>>
ImageIds == {1}

NoError == [kind |-> "none", detail |-> <<>>]
Err(k, d) == [kind |-> k, detail |-> d]

Call(op, arg, ok) == [op |-> op, arg |-> arg, ok |-> ok]

\* the container named like the network
container_name_as_network(id) == <<"conducto_network_">> \o id

\* container_name = f"conducto_manager_{pipeline_id}"
container_name(id) == <<"conducto_manager_">> \o id
default_network(id) == <<"conducto_network_">> \o id

(***************************************************************************)
(* Pure helpers                                                            *)
(***************************************************************************)
\* `needle in haystack` on character sequences
IsInfix(needle, haystack) ==
    \E i \in 0..(Len(haystack) - Len(needle)) :
        SubSeq(haystack, i + 1, i + Len(needle)) = needle

\* the test of the listing inverted
InDockerPs_inverted(name, dps) == ~(\E n \in dps : IsInfix(name, n))

\* `container_name not in dps` reads the text of `docker ps`: the name is found
\* when it occurs anywhere in the listing
InDockerPs(name, dps) == \E n \in dps : IsInfix(name, n)

\* hostdet.wsl_host_docker_path: a Windows drive-rooted path to the mount root
\* the runtime sees
wsl_host_docker_path(path) == [path EXCEPT !.form = "docker"]

\* hostdet.windows_docker_path
windows_docker_path(path) == [path EXCEPT !.form = "docker"]

\* _split_windocker: the chunk before "//" is converted, the next chunk kept
_split_windocker(path) ==
    [wsl_host_docker_path([path EXCEPT !.sub = FALSE]) EXCEPT !.sub = path.sub]

\* image objects taken for one when their fields are equal
RECURSIVE imagelist_by_value(_, _)
imagelist_by_value(list, seen) ==
    IF list = <<>> THEN seen
    ELSE IF \E k \in 1..Len(seen) : images[seen[k]] = images[Head(list)]
         THEN imagelist_by_value(Tail(list), seen)
         ELSE imagelist_by_value(Tail(list), Append(seen, Head(list)))

\* the image objects reached by node.stream(), each once, by identity
RECURSIVE imagelist_from(_, _)
imagelist_from(nodes, seen) ==
    IF nodes = <<>> THEN seen
    ELSE IF \E k \in 1..Len(seen) : seen[k] = Head(nodes)
         THEN imagelist_from(Tail(nodes), seen)
         ELSE imagelist_from(Tail(nodes), Append(seen, Head(nodes)))

imagelist == imagelist_from(stream, <<>>)

Fields == {"copy_dir", "context", "dockerfile"}

\* one image's pass of the translation loop; conv is the host's converter
translate_image(img, wsl) ==
    [f \in Fields |->
        IF img[f] = NoPath THEN NoPath
        ELSE IF wsl THEN _split_windocker(img[f]) ELSE windows_docker_path(img[f])]

\* drives.add(newpath[1]) for every non-empty field
image_drives(img) == {img[f].drive : f \in {g \in Fields : img[g] # NoPath}}

RECURSIVE translate_all(_, _, _)
translate_all(imgs, list, wsl) ==
    IF list = <<>> THEN imgs
    ELSE translate_all([imgs EXCEPT ![Head(list)] = translate_image(@, wsl)],
                       Tail(list), wsl)

\* _wsl_translate_locations
_wsl_translate_locations(imgs) ==
    LET new == translate_all(imgs, imagelist, TRUE)
    IN  [images |-> new,
         drives |-> UNION {image_drives(new[imagelist[k]]) : k \in 1..Len(imagelist)}]

\* _windows_translate_locations
_windows_translate_locations(imgs) ==
    LET new == translate_all(imgs, imagelist, FALSE)
    IN  [images |-> new,
         drives |-> UNION {image_drives(new[imagelist[k]]) : k \in 1..Len(imagelist)}]

\* shutil.rmtree(..., ignore_errors=True) on one directory: the whole subtree
\* goes, or an error stops part of it (with or without the serialization file
\* among what is left), or nothing could be removed
RmtreeOutcomes == {"removed", "partial", "partial_file_left", "intact"}
NoRmtree == [d \in DirNames |-> "none"]

\* the membership test inverted
rmtree_called_on_live(subdir, ds, live) == ds[subdir] # "absent" /\ subdir \in live

\* clean_log_dirs: `for subdir in os.listdir(...): if subdir not in pipeline_ids`
rmtree_called(subdir, ds, live) == ds[subdir] # "absent" /\ subdir \notin live

\* clean_log_dirs: what happened to each directory in the loop
clean_results(ds, live, outcome) ==
    [d \in DirNames |-> IF rmtree_called(d, ds, live) THEN outcome[d] ELSE "none"]

\* the directories after the loop
clean_dirs(ds, res) ==
    [d \in DirNames |->
        IF res[d] = "removed" THEN "absent"
        ELSE IF res[d] \in {"partial", "partial_file_left"} THEN "partial"
        ELSE ds[d]]

\* the serialization files after the loop
clean_files(fs, res) == {d \in fs : res[d] \in {"none", "intact", "partial_file_left"}}

\* the readiness test with `or` for `and`
is_ready_either(data) == data.status_in_target \/ data.pgw

\* the readiness test of one status response
is_ready(data) == data.status_in_target /\ data.pgw

StatusResponses == [status_in_target : BOOLEAN, pgw : BOOLEAN]
NoResp == [status_in_target |-> FALSE, pgw |-> FALSE]

(***************************************************************************)
(* Initial states                                                          *)
(***************************************************************************)
InitCommon ==
    /\ build_mode \in BuildMode
    /\ debug \in BOOLEAN
    /\ own_image \in BOOLEAN
    /\ env_network \in {NoName, <<"custom_net">>}
    /\ required_drives = {}
    /\ calls = <<>>
    /\ files = {d \in DirNames : dirs[d] = "whole"}
    /\ pipeline_ids = {}
    /\ rm_result = NoRmtree
    /\ net_result = "none"
    /\ readiness = "Launching"
    /\ polls = 0
    /\ resp = NoResp
    /\ error = NoError
    /\ handed = {}
    /\ environ = NoEnviron
    /\ inject_env = NoEnviron
    /\ mcpu = 1
    /\ docker_basedir = NoDir
    /\ flags = <<>>
    /\ sharing = NoSharing
    /\ registered = {}
    /\ fd_open = FALSE
    /\ tmp = "none"
    /\ obj = "absent"
    /\ credentials = NoCredentials
    /\ retries = 0
    /\ host_drives = {}
    /\ drive_bitmask = 0
    /\ peers = NoPeers
    /\ stream = NodeImages

\* the caller enters build(node, build_mode, ...)
InitBuild ==
    /\ entry = "build"
    /\ host \in Hosts
    /\ containers \in {{}, {container_name(IdAB)}}
    /\ networks = {}
    /\ pc = "build"
    /\ is_migration = FALSE
    /\ images \in [ImageIds -> ImageInputs]
    /\ available \in IF host = "unix" THEN {{}} ELSE SUBSET Drives
    /\ token = NoToken
    /\ pipeline_id = NoId
    \* ids are unique: no directory of the id to come exists; IdC is an older one
    /\ dirs = [d \in DirNames |-> IF d = IdC THEN "whole" ELSE "absent"]

\* the caller enters launch_from_serialization(serialization, pipeline_id, ...)
InitLaunch ==
    /\ entry = "launch_from_serialization"
    /\ host = "unix"
    /\ containers \in {{}, {container_name(IdAB)}}
    /\ networks = {}
    /\ pc = "launch"
    /\ is_migration \in BOOLEAN
    /\ images = [i \in ImageIds |->
                    [copy_dir |-> NoPath, context |-> NoPath, dockerfile |-> NoPath]]
    /\ available = {}
    /\ token \in {NoToken, "given"}
    /\ pipeline_id \in NewIds
    \* the pipeline may have been launched before
    /\ dirs \in {[d \in DirNames |-> IF d = IdC THEN "whole" ELSE "absent"],
                 [d \in DirNames |-> IF d \in {IdC, pipeline_id} THEN "whole"
                                      ELSE "absent"]}

Init == (InitBuild \/ InitLaunch) /\ InitCommon

(***************************************************************************)
(* The launch, step by step                                                *)
(***************************************************************************)
inputs == <<entry, host, build_mode, is_migration, debug, own_image, env_network,
            available, environ, inject_env, mcpu, docker_basedir, flags, peers,
            stream, drive_bitmask, host_drives, retries, credentials, obj, tmp,
            fd_open, registered, sharing>>
runtime == <<networks, containers, net_result>>
verifier == <<readiness, polls, resp>>
localfs == <<dirs, files, pipeline_ids, rm_result>>

Raise(e) == pc' = "raised" /\ error' = e
Issue(c) == calls' = Append(calls, c)

\* build(): required_drives = _wsl_translate_locations(node) or
\* _windows_translate_locations(node); nothing on the Unix family
build_translate ==
    /\ pc = "build"
    /\ LET r == IF host = "wsl" THEN _wsl_translate_locations(images)
                ELSE IF host = "windows" THEN _windows_translate_locations(images)
                ELSE [images |-> images, drives |-> {}]
       IN  images' = r.images /\ required_drives' = r.drives
    /\ pc' = "build_check"
    /\ UNCHANGED <<inputs, runtime, verifier, localfs, token, pipeline_id, calls,
                   error, handed>>

\* the difference taken the wrong way round
unavailable_drives_swapped == IF host \in {"wsl", "windows"}
                              THEN available \ required_drives ELSE {}

\* set(required_drives).difference(available)
unavailable_drives == IF host \in {"wsl", "windows"}
                      THEN required_drives \ available ELSE {}

\* build(): the drive pre-flight check
build_check_drives ==
    /\ pc = "build_check"
    /\ IF unavailable_drives # {}
       THEN \E d \in unavailable_drives : Raise(Err("WindowsMapError", <<d>>))
       ELSE pc' = "build_token" /\ error' = error
    /\ UNCHANGED <<inputs, runtime, verifier, localfs, images, required_drives, token,
                   pipeline_id, calls, handed>>

\* build(): api.Auth().get_token_from_shell(force=True)
build_get_token ==
    /\ pc = "build_token"
    /\ \E ok \in BOOLEAN :
         /\ Issue(Call("get_token_force", <<>>, ok))
         /\ IF ok THEN token' = "fresh" /\ pc' = "build_serialize" /\ error' = error
            ELSE token' = token /\ Raise(Err("AuthError", <<>>))
    /\ UNCHANGED <<inputs, runtime, verifier, localfs, images, required_drives,
                   pipeline_id, handed>>

\* build(): node.serialize() and the command line
build_serialize ==
    /\ pc = "build_serialize"
    /\ Issue(Call("serialize", <<>>, TRUE))
    /\ pc' = "build_create"
    /\ UNCHANGED <<inputs, runtime, verifier, localfs, images, required_drives, token,
                   pipeline_id, error, handed>>

\* build() going on to launch_from_serialization() when the registration failed
build_create_pipeline_unchecked ==
    /\ pc = "build_create"
    /\ \/ \E id \in NewIds :
            /\ Issue(Call("CreatePipeline", id, TRUE))
            /\ pipeline_id' = id
       \/ /\ Issue(Call("CreatePipeline", NoId, FALSE))
          /\ pipeline_id' = IdA
    /\ pc' = "launch"
    /\ error' = error
    /\ UNCHANGED <<inputs, runtime, verifier, localfs, images, required_drives, token,
                   handed>>

\* build(): api.Pipeline().create(...), then launch_from_serialization(...)
build_create_pipeline ==
    /\ pc = "build_create"
    /\ \/ \E id \in NewIds :
            /\ Issue(Call("CreatePipeline", id, TRUE))
            /\ pipeline_id' = id
            /\ pc' = "launch"
            /\ error' = error
       \/ /\ Issue(Call("CreatePipeline", NoId, FALSE))
          /\ pipeline_id' = pipeline_id
          /\ Raise(Err("ApiError", <<"CreatePipeline">>))
    /\ UNCHANGED <<inputs, runtime, verifier, localfs, images, required_drives, token,
                   handed>>

\* a launch_from_serialization() that fetches a token whatever it was passed
launch_from_serialization_refreshing ==
    /\ pc = "launch"
    /\ \E ok \in BOOLEAN :
          /\ Issue(Call("get_token_force", <<>>, ok))
          /\ IF ok THEN token' = "fresh" /\ pc' = "run" /\ error' = error
             ELSE token' = token /\ Raise(Err("AuthError", <<>>))
    /\ UNCHANGED <<inputs, runtime, verifier, localfs, images, required_drives,
                   pipeline_id, handed>>

\* launch_from_serialization(): a token is fetched when none was passed; then
\* run(token, pipeline_id, func, ...) is entered
launch_from_serialization ==
    /\ pc = "launch"
    /\ IF token = NoToken
       THEN \E ok \in BOOLEAN :
              /\ Issue(Call("get_token_force", <<>>, ok))
              /\ IF ok THEN token' = "fresh" /\ pc' = "run" /\ error' = error
                 ELSE token' = token /\ Raise(Err("AuthError", <<>>))
       ELSE /\ pc' = "run"
            /\ UNCHANGED <<calls, token, error>>
    /\ UNCHANGED <<inputs, runtime, verifier, localfs, images, required_drives,
                   pipeline_id, handed>>

\* a launch that prepares the local manager image in every mode
starting_always == TRUE

\* launch_from_serialization(): run(..., cloud_deploy, starting=False) in cloud
\* mode, run(..., local_deploy, starting=True) otherwise
starting == build_mode # "DEPLOY_TO_CLOUD"

\* run(): when starting, the manager image is inspected and pulled if missing;
\* then func() is called
run ==
    /\ pc = "run"
    /\ LET func == IF build_mode = "DEPLOY_TO_CLOUD" THEN "cloud_deploy"
                   ELSE "local_deploy"
       IN  IF ~starting
           THEN pc' = func /\ UNCHANGED <<calls, error>>
           ELSE \/ /\ Issue(Call("docker_image_inspect", <<>>, TRUE))
                   /\ pc' = func /\ error' = error
                \/ /\ calls' = calls \o <<Call("docker_image_inspect", <<>>, FALSE),
                                          Call("docker_pull", <<>>, TRUE)>>
                   /\ pc' = func /\ error' = error
                \/ /\ calls' = calls \o <<Call("docker_image_inspect", <<>>, FALSE),
                                          Call("docker_pull", <<>>, FALSE)>>
                   /\ Raise(Err("CalledProcessError", <<"docker_pull">>))
    /\ UNCHANGED <<inputs, runtime, verifier, localfs, images, required_drives, token,
                   pipeline_id, handed>>

\* cloud_deploy() passing over a failed Manager().launch
cloud_deploy_unchecked ==
    /\ pc = "cloud_deploy"
    /\ \/ \E ok \in BOOLEAN :
            /\ calls' = calls \o <<Call("SaveSerialization", pipeline_id, TRUE),
                                   Call("LaunchCloudManager", pipeline_id, ok)>>
            /\ pc' = "run_after" /\ error' = error
       \/ /\ Issue(Call("SaveSerialization", pipeline_id, FALSE))
          /\ Raise(Err("ApiError", <<"SaveSerialization">>))
    /\ UNCHANGED <<inputs, runtime, verifier, localfs, images, required_drives, token,
                   pipeline_id, handed>>

\* cloud_deploy(): save_serialization, then Manager().launch
cloud_deploy ==
    /\ pc = "cloud_deploy"
    /\ \/ /\ calls' = calls \o <<Call("SaveSerialization", pipeline_id, TRUE),
                                 Call("LaunchCloudManager", pipeline_id, TRUE)>>
          /\ pc' = "run_after" /\ error' = error
       \/ /\ calls' = calls \o <<Call("SaveSerialization", pipeline_id, TRUE),
                                 Call("LaunchCloudManager", pipeline_id, FALSE)>>
          /\ Raise(Err("ApiError", <<"LaunchCloudManager">>))
       \/ /\ Issue(Call("SaveSerialization", pipeline_id, FALSE))
          /\ Raise(Err("ApiError", <<"SaveSerialization">>))
    /\ UNCHANGED <<inputs, runtime, verifier, localfs, images, required_drives, token,
                   pipeline_id, handed>>

\* a collector that also removes the network and the manager container of
\* every pipeline that is not live
clean_log_dirs_body_reclaiming(return_to) ==
    /\ \/ \E live \in SUBSET DirNames :
          \E outcome \in [{d \in DirNames : rmtree_called(d, dirs, live)}
                            -> RmtreeOutcomes] :
            LET res == clean_results(dirs, live, outcome)
            IN  /\ Issue(Call("ListPipelines", <<>>, TRUE))
                /\ pipeline_ids' = live
                /\ rm_result' = res
                /\ dirs' = clean_dirs(dirs, res)
                /\ files' = clean_files(files, res)
                /\ networks' = networks \ {default_network(d) : d \in DirNames \ live}
                /\ containers' = containers \ {container_name(d) : d \in DirNames \ live}
                /\ pc' = return_to /\ error' = error
       \/ /\ Issue(Call("ListPipelines", <<>>, FALSE))
          /\ Raise(Err("ApiError", <<"ListPipelines">>))
          /\ UNCHANGED <<localfs, networks, containers>>
    /\ UNCHANGED <<inputs, net_result, verifier, images, required_drives, token,
                   pipeline_id, handed>>

\* clean_log_dirs(token): the live ids are listed and every subdirectory of the
\* profile root that is not one of them is passed to rmtree
clean_log_dirs_body(return_to) ==
    /\ \/ \E live \in SUBSET DirNames :
          \E outcome \in [{d \in DirNames : rmtree_called(d, dirs, live)}
                            -> RmtreeOutcomes] :
            LET res == clean_results(dirs, live, outcome)
            IN  /\ Issue(Call("ListPipelines", <<>>, TRUE))
                /\ pipeline_ids' = live
                /\ rm_result' = res
                /\ dirs' = clean_dirs(dirs, res)
                /\ files' = clean_files(files, res)
                /\ pc' = return_to /\ error' = error
       \/ /\ Issue(Call("ListPipelines", <<>>, FALSE))
          /\ Raise(Err("ApiError", <<"ListPipelines">>))
          /\ UNCHANGED localfs
    /\ UNCHANGED <<inputs, runtime, verifier, images, required_drives, token,
                   pipeline_id, handed>>

\* local_deploy(): clean_log_dirs(token)
clean_log_dirs ==
    /\ pc = "local_deploy"
    /\ clean_log_dirs_body("local_write")

\* local_deploy(): os.makedirs(local_progdir, exist_ok=True) and the write of
\* the serialization file
local_write_serialization ==
    /\ pc = "local_write"
    /\ \/ /\ Issue(Call("write_serialization", pipeline_id, TRUE))
          /\ dirs' = [dirs EXCEPT ![pipeline_id] = IF @ = "absent" THEN "whole" ELSE @]
          /\ files' = files \cup {pipeline_id}
          /\ pc' = "local_update" /\ error' = error
       \/ /\ Issue(Call("write_serialization", pipeline_id, FALSE))
          /\ Raise(Err("OSError", <<>>))
          /\ UNCHANGED <<dirs, files>>
    /\ pipeline_ids' = {}
    /\ rm_result' = NoRmtree
    /\ UNCHANGED <<inputs, runtime, verifier, images, required_drives,
                   token, pipeline_id, handed>>

\* local_deploy(): api.Pipeline().update(..., {"program_path": ...}), then
\* run_in_local_container(...)
local_update_pipeline ==
    /\ pc = "local_update"
    /\ \E ok \in BOOLEAN :
         /\ Issue(Call("UpdatePipeline", pipeline_id, ok))
         /\ IF ok THEN pc' = "rilc_network" /\ error' = error
            ELSE Raise(Err("ApiError", <<"UpdatePipeline">>))
    /\ UNCHANGED <<inputs, runtime, verifier, localfs, images, required_drives, token,
                   pipeline_id, handed>>

\* a network name that ignores the environment
network_name_from_id == default_network(pipeline_id)

\* os.getenv("CONDUCTO_NETWORK", f"conducto_network_{pipeline_id}")
network_name == IF env_network = NoName THEN default_network(pipeline_id)
                ELSE env_network

\* what `docker network create` can report
NetworkCreateResults == {"created", "already_exists", "other_error"}

\* an except branch that passes over every error
network_error_tolerated_always(result) == TRUE

\* the except branch: the error is passed over when stderr holds
\* "network with name <network_name> already exists"
network_error_tolerated(result) == result = "already_exists"

\* run_in_local_container(): `docker network create`, unless migrating
rilc_network ==
    /\ pc = "rilc_network"
    /\ IF is_migration
       THEN /\ net_result' = "skipped"
            /\ pc' = "rilc_pull"
            /\ UNCHANGED <<calls, networks, error>>
       ELSE \E result \in NetworkCreateResults :
              /\ result = "created" => network_name \notin networks
              /\ Issue(Call("docker_network_create", network_name, result = "created"))
              /\ net_result' = result
              /\ networks' = IF result = "other_error" THEN networks
                             ELSE networks \cup {network_name}
              /\ IF result = "created" \/ network_error_tolerated(result)
                 THEN pc' = "rilc_pull" /\ error' = error
                 ELSE Raise(Err("CalledProcessError", <<"docker_network_create">>))
    /\ UNCHANGED <<inputs, containers, verifier, localfs, images, required_drives, token,
                   pipeline_id, handed>>

\* a `docker pull` whose failure is passed over
rilc_pull_unchecked ==
    /\ pc = "rilc_pull"
    /\ IF own_image
       THEN \E ok \in BOOLEAN :
              /\ Issue(Call("docker_pull", <<>>, ok))
              /\ pc' = "rilc_run" /\ error' = error
       ELSE pc' = "rilc_run" /\ UNCHANGED <<calls, error>>
    /\ UNCHANGED <<inputs, runtime, verifier, localfs, images, required_drives, token,
                   pipeline_id, handed>>

\* run_in_local_container(): `docker pull` of an image of the conducto/ namespace
rilc_pull ==
    /\ pc = "rilc_pull"
    /\ IF own_image
       THEN \E ok \in BOOLEAN :
              /\ Issue(Call("docker_pull", <<>>, ok))
              /\ IF ok THEN pc' = "rilc_run" /\ error' = error
                 ELSE Raise(Err("CalledProcessError", <<"docker_pull">>))
       ELSE pc' = "rilc_run" /\ UNCHANGED <<calls, error>>
    /\ UNCHANGED <<inputs, runtime, verifier, localfs, images, required_drives, token,
                   pipeline_id, handed>>

\* a `docker run` whose exit status is not checked
rilc_run_unchecked ==
    /\ pc = "rilc_run"
    /\ \E ok \in BOOLEAN :
          /\ ok => container_name(pipeline_id) \notin containers
          /\ Issue(Call("docker_run", container_name(pipeline_id), ok))
          /\ pc' = IF debug THEN "run_after" ELSE "rilc_poll"
          /\ containers' = IF ok /\ ~debug
                            THEN containers \cup {container_name(pipeline_id)}
                            ELSE containers
          /\ readiness' = IF debug THEN readiness ELSE "Verifying"
          /\ error' = error
    /\ UNCHANGED <<inputs, networks, net_result, polls, resp, localfs, images,
                   required_drives, token, pipeline_id, handed>>

\* run_in_local_container(): `docker run ... --name conducto_manager_<id> ...`;
\* detached unless in debug mode, where the call returns when the manager ends
rilc_run ==
    /\ pc = "rilc_run"
    /\ \/ /\ container_name(pipeline_id) \notin containers
          /\ Issue(Call("docker_run", container_name(pipeline_id), TRUE))
          /\ IF debug
             THEN /\ pc' = "run_after"
                  /\ UNCHANGED <<containers, readiness>>
             ELSE /\ pc' = "rilc_poll"
                  /\ containers' = containers \cup {container_name(pipeline_id)}
                  /\ readiness' = "Verifying"
          /\ error' = error
       \/ /\ Issue(Call("docker_run", container_name(pipeline_id), FALSE))
          /\ Raise(Err("CalledProcessError", <<"docker_run">>))
          /\ UNCHANGED <<containers, readiness>>
    /\ UNCHANGED <<inputs, networks, net_result, polls, resp, localfs, images,
                   required_drives, token, pipeline_id, handed>>

\* `while True` for the bounded loop
loop_continues_forever == TRUE

\* a loop that runs once too often
loop_continues_once_more == polls <= MaxPolls

\* for _ in range(int(WAIT_TIME_SECS / POLL_INTERVAL_SECS)): another iteration
loop_continues == polls < MaxPolls

\* one iteration of the readiness loop: sleep, api.Pipeline().get, the test of
\* the response, `docker ps`, the test of its output
rilc_poll ==
    /\ pc = "rilc_poll"
    /\ loop_continues
    /\ polls' = polls + 1
    /\ \/ \E data \in StatusResponses :
            /\ resp' = data
            /\ IF is_ready(data)
               THEN /\ Issue(Call("GetPipeline", pipeline_id, TRUE))
                    /\ readiness' = "Active"
                    /\ pc' = "run_after" /\ error' = error
               ELSE /\ calls' = calls \o <<Call("GetPipeline", pipeline_id, TRUE),
                                           Call("docker_ps", <<>>, TRUE)>>
                    /\ IF ~InDockerPs(container_name(pipeline_id), containers)
                       THEN /\ readiness' = "Failed"
                            /\ Raise(Err("RuntimeError",
                                         <<"error starting the docker container">>))
                       ELSE /\ readiness' = readiness
                            /\ pc' = pc /\ error' = error
       \/ /\ Issue(Call("GetPipeline", pipeline_id, FALSE))
          /\ Raise(Err("ApiError", <<"GetPipeline">>))
          /\ UNCHANGED <<resp, readiness>>
    /\ UNCHANGED <<inputs, runtime, localfs, images, required_drives, token,
                   pipeline_id, handed>>

\* an else branch that reports the timeout and returns
rilc_timeout_returns ==
    /\ pc = "rilc_poll"
    /\ ~loop_continues
    /\ readiness' = "TimedOut"
    /\ pc' = "run_after"
    /\ UNCHANGED <<inputs, runtime, localfs, images, required_drives, token,
                   pipeline_id, calls, polls, resp, error, handed>>

\* the else branch of the readiness loop: the loop ran out without a break
rilc_timeout ==
    /\ pc = "rilc_poll"
    /\ ~loop_continues
    /\ readiness' = "TimedOut"
    /\ Raise(Err("RuntimeError", <<"no manager connection to pgw", pipeline_id,
                                   WAIT_TIME_SECS>>))
    /\ UNCHANGED <<inputs, runtime, localfs, images, required_drives, token,
                   pipeline_id, calls, polls, resp, handed>>

\* the container runtime: the manager container ends (and is removed, --rm)
manager_exit ==
    /\ pc = "rilc_poll"
    /\ container_name(pipeline_id) \in containers
    /\ containers' = containers \ {container_name(pipeline_id)}
    /\ UNCHANGED <<pc, inputs, networks, net_result, verifier, localfs, images,
                   required_drives, token, pipeline_id, calls, error, handed>>

\* run(), after func(): nothing more in debug mode; else the viewer is opened
\* (use_app), the pipeline is read, and the shell is connected (use_shell);
\* then launch_from_serialization() returns pipeline_id
run_after ==
    /\ pc = "run_after"
    /\ IF debug
       THEN /\ pc' = "done"
            /\ handed' = handed \cup {"returned"}
            /\ UNCHANGED <<calls, error>>
       ELSE \E use_app \in BOOLEAN, use_shell \in BOOLEAN, ok \in BOOLEAN :
              LET viewer == IF use_app THEN {"viewer"} ELSE {}
                  shell == IF use_shell THEN {"shell"} ELSE {}
              IN  /\ Issue(Call("GetPipeline", pipeline_id, ok))
                  /\ IF ok
                     THEN /\ handed' = handed \cup viewer \cup shell \cup {"returned"}
                          /\ pc' = "done" /\ error' = error
                     ELSE /\ handed' = handed \cup viewer
                          /\ Raise(Err("ApiError", <<"GetPipeline">>))
    /\ UNCHANGED <<inputs, runtime, verifier, localfs, images, required_drives, token,
                   pipeline_id>>

(***************************************************************************)
(* The container-run spec: the flags of `docker run`                       *)
(***************************************************************************)
\* one flag with its argument: `-e key=val`, `-v key:val`, `--mount
\* type=bind,source=key,target=val[,readonly]`, `--name val`, ...
Flag(opt, key, val, ro) == [opt |-> opt, key |-> key, val |-> val, ro |-> ro]
Option(opt, val) == Flag(opt, "", val, FALSE)
Env(key, val) == Flag("-e", key, val, FALSE)

\* str.lower() on a drive letter
lower(d) == CASE d = "C" -> "c" [] d = "D" -> "d" [] OTHER -> d

\* the order in which docker_available_drives() lists the drives
DriveOrder == <<"c", "d">>
AllowList == <<"CONDUCTO_URL", "CONDUCTO_CONFIG", "IMAGE_TAG", "CONDUCTO_DEV_REGISTRY">>
\* the order of the keys of inject_env
InjectOrder == <<"CONDUCTO_URL", "CONDUCTO_NETWORK", "MY_VAR">>

\* os.environ.get(name), None being <<"None">>; bool() of the result
environ_get(name) == IF name \in DOMAIN environ THEN environ[name] ELSE <<"None">>
truthy(val) == val # <<"None">> /\ val # <<>>

\* the flags list as first written down
fixed_flags ==
    << Option("-d", <<>>),
       Option("--rm", <<>>),
       Option("--name", container_name(pipeline_id)),
       Option("--network", network_name),
       Option("--hostname", container_name(pipeline_id)),
       Option("--label", <<"conducto">>),
       Flag("-v", "local_basedir", <<"/root/.conducto">>, FALSE),
       Flag("-v", "/var/run/docker.sock", <<"/var/run/docker.sock">>, FALSE),
       Env("CONDUCTO_BASE_DIR_VERIFY", <<"/root/.conducto">>),
       Env("CONDUCTO_LOCAL_BASE_DIR", <<"local_basedir">>),
       Env("CONDUCTO_LOCAL_HOSTNAME", <<"gethostname">>),
       Env("CONDUCTO_NETWORK", network_name) >>

\* a pass-through that copies every allow-listed variable that is set
passed_if_set(name) == name \in DOMAIN environ

\* `if os.environ.get(env_var)`
passed(name) == truthy(environ_get(name))

\* the allow-list loop
passthrough_flags ==
    LET names == SelectSeq(AllowList, passed)
    IN  [i \in 1..Len(names) |-> Env(names[i], environ[names[i]])]

\* an injection that comes before everything else
inject_first(others, injected) == injected \o others

\* flags.extend(...) for the items of inject_env
inject_last(others, injected) == others \o injected

\* `for k, v in inject_env.items()`
inject_flags ==
    LET keys == SelectSeq(InjectOrder, LAMBDA k : k \in DOMAIN inject_env)
    IN  [i \in 1..Len(keys) |-> Env(keys[i], inject_env[keys[i]])]

\* drive mounts for the drives the pipeline needs only
mounted_drives_required == required_drives

\* `drives = docker_available_drives()`
mounted_drives == available

\* the host file system: one read-only bind per drive on WSL and Windows with
\* WINDOWS_HOST before them, one read-only bind of / elsewhere
host_mount_flags(desktop_23) ==
    IF host \in {"wsl", "windows"}
    THEN LET drives == SelectSeq(DriveOrder, LAMBDA d : d \in mounted_drives)
         IN  << Env("WINDOWS_HOST", IF desktop_23 THEN <<"host_mnt">> ELSE <<"plain">>) >>
             \o [i \in 1..Len(drives) |->
                   Flag("--mount", drives[i], <<"MOUNT_LOCATION", lower(drives[i])>>, TRUE)]
    ELSE << Flag("--mount", "/", <<"MOUNT_LOCATION">>, TRUE) >>

\* a debug mode that raises the log level and stays detached
debug_flags_detached(fl) ==
    IF debug THEN fl \o << Env("CONDUCTO_LOG_LEVEL", <<"0">>) >> ELSE fl

\* `if _manager_debug()`: flags[0] = "-it" and the log level
debug_flags(fl) ==
    IF debug
    THEN [fl EXCEPT ![1] = Option("-it", <<>>)] \o << Env("CONDUCTO_LOG_LEVEL", <<"0">>) >>
    ELSE fl

\* `if mcpu > 0`
cpu_flags == IF mcpu > 0 THEN << Option("--cpus", <<ToString(mcpu)>>) >> ELSE <<>>

\* `if docker_basedir: flags += ["-v", f"{docker_basedir}:/root/.docker"]`
docker_config_flags ==
    IF docker_basedir # NoDir
    THEN << Flag("-v", docker_basedir, <<"/root/.docker">>, FALSE) >> ELSE <<>>

\* run_in_local_container(): the flags handed to `docker run`
docker_flags(desktop_23) ==
    debug_flags(inject_last(fixed_flags \o passthrough_flags, inject_flags)
                \o host_mount_flags(desktop_23))
    \o cpu_flags \o docker_config_flags

Next ==
    \/ build_translate
    \/ build_check_drives
    \/ build_get_token
    \/ build_serialize
    \/ build_create_pipeline
    \/ launch_from_serialization
    \/ run
    \/ cloud_deploy
    \/ clean_log_dirs
    \/ local_write_serialization
    \/ local_update_pipeline
    \/ rilc_network
    \/ rilc_pull
    \/ rilc_run
    \/ rilc_poll
    \/ rilc_timeout
    \/ manager_exit
    \/ run_after

Spec == Init /\ [][Next]_vars

(***************************************************************************)
(* The Stale-State Collector on its own: clean_log_dirs(token) called on   *)
(* every layout of the profile root                                        *)
(***************************************************************************)
InitCollector ==
    /\ entry = "clean_log_dirs"
    /\ pc = "clean_log_dirs"
    /\ host = "unix"
    /\ build_mode = "LOCAL"
    /\ is_migration = FALSE
    /\ debug = FALSE
    /\ own_image = FALSE
    /\ env_network = NoName
    /\ images = [i \in ImageIds |->
                    [copy_dir |-> NoPath, context |-> NoPath, dockerfile |-> NoPath]]
    /\ available = {}
    /\ token = "given"
    /\ pipeline_id = NoId
    /\ dirs \in [DirNames -> {"absent", "whole"}]
    \* an earlier launch of IdC may have failed after `docker network create`,
    \* or with its manager started and never verified
    /\ networks \in SUBSET {default_network(IdC)}
    /\ containers \in SUBSET {container_name(IdC)}
    /\ InitCommon

collector ==
    /\ pc = "clean_log_dirs"
    /\ clean_log_dirs_body("cleaned")

NextCollector == collector

SpecCollector == InitCollector /\ [][NextCollector]_vars

(***************************************************************************)
(* The container-run spec on its own: run_in_local_container() assembling  *)
(* the flags of `docker run` in every environment of the launching process *)
(***************************************************************************)
EnvNames == {"CONDUCTO_URL", "CONDUCTO_CONFIG", "IMAGE_TAG", "CONDUCTO_DEV_REGISTRY",
             "HOME"}
\* a variable is unset, set to the empty string, or set to a value
EnvValues(name) == IF name = "CONDUCTO_URL" THEN {<<>>, <<"x">>}
                   ELSE {<<"x">>}
Environs ==
    UNION {{e \in [S -> {<<>>, <<"x">>}] : \A n \in S : e[n] \in EnvValues(n)} :
             S \in SUBSET EnvNames}
InjectEnvs == {[k \in S |-> <<"injected">>] :
                 S \in {{}, {"CONDUCTO_URL"}, {"CONDUCTO_NETWORK"},
                        {"CONDUCTO_URL", "CONDUCTO_NETWORK", "MY_VAR"}}}

InitFlags ==
    /\ entry = "run_in_local_container"
    /\ pc = "rilc_flags"
    /\ host \in Hosts
    /\ build_mode = "LOCAL"
    /\ is_migration = FALSE
    /\ debug \in BOOLEAN
    /\ own_image = FALSE
    /\ env_network \in {NoName, <<"custom_net">>}
    /\ images = [i \in ImageIds |->
                    [copy_dir |-> NoPath, context |-> NoPath, dockerfile |-> NoPath]]
    /\ available \in IF host = "unix" THEN {{}} ELSE SUBSET Drives
    \* build() has checked that every required drive is available
    /\ required_drives \in SUBSET available
    /\ token = "given"
    /\ pipeline_id = IdA
    /\ calls = <<>>
    /\ dirs = [d \in DirNames |-> IF d = pipeline_id THEN "whole" ELSE "absent"]
    /\ files = {pipeline_id}
    /\ pipeline_ids = {}
    /\ rm_result = NoRmtree
    /\ networks = {network_name}
    /\ containers = {}
    /\ net_result = "created"
    /\ readiness = "Launching"
    /\ polls = 0
    /\ resp = NoResp
    /\ error = NoError
    /\ handed = {}
    /\ environ \in Environs
    /\ inject_env \in InjectEnvs
    /\ mcpu \in {0, 1}
    /\ docker_basedir \in {NoDir, "~/.docker"}
    /\ flags = <<>>
    /\ sharing = NoSharing
    /\ registered = {}
    /\ fd_open = FALSE
    /\ tmp = "none"
    /\ obj = "absent"
    /\ credentials = NoCredentials
    /\ retries = 0
    /\ host_drives = {}
    /\ drive_bitmask = 0
    /\ peers = NoPeers
    /\ stream = NodeImages

\* run_in_local_container(): from `flags = [` to the docker config directory
assemble_flags ==
    /\ pc = "rilc_flags"
    /\ \E desktop_23 \in IF host = "unix" THEN {FALSE} ELSE BOOLEAN :
          flags' = docker_flags(desktop_23)
    /\ pc' = "rilc_pull"
    /\ UNCHANGED <<entry, host, build_mode, is_migration, debug, own_image,
                   env_network, available, environ, inject_env, mcpu, docker_basedir,
                   runtime, verifier, localfs, images, required_drives, token,
                   pipeline_id, calls, error, handed, peers, stream,
                   drive_bitmask, host_drives, retries, credentials, obj, tmp,
                   fd_open, registered, sharing>>

NextFlags == assemble_flags

SpecFlags == InitFlags /\ [][NextFlags]_vars

(***************************************************************************)
(* Two local launches of one pipeline: launch_from_serialization() called  *)
(* twice with the same pipeline_id, each in run_in_local_container() from  *)
(* `docker network create` on, against one container runtime that refuses  *)
(* a name in use and nothing else                                          *)
(***************************************************************************)
Launches == {1, 2}

\* one launch: its position, what `docker network create` and `docker run`
\* reported to it, its `docker run` calls and polls so far, and the manager
\* container it started
Peer(at, net, ran, runs, n, manager) ==
    [pc |-> at, net |-> net, run |-> ran, runs |-> runs, polls |-> n,
     manager |-> manager]

InitTwo ==
    /\ entry = "launch_from_serialization"
    /\ pc = "two"
    /\ host = "unix"
    /\ build_mode = "LOCAL"
    /\ is_migration = FALSE
    /\ debug = FALSE
    /\ own_image = FALSE
    /\ env_network \in {NoName, <<"custom_net">>}
    /\ images = [i \in ImageIds |->
                    [copy_dir |-> NoPath, context |-> NoPath, dockerfile |-> NoPath]]
    /\ available = {}
    /\ required_drives = {}
    /\ token = "given"
    /\ pipeline_id \in NewIds
    /\ calls = <<>>
    /\ dirs = [d \in DirNames |-> IF d = pipeline_id THEN "whole" ELSE "absent"]
    /\ files = {pipeline_id}
    /\ pipeline_ids = {}
    /\ rm_result = NoRmtree
    /\ networks = {}
    /\ containers \in {{}, {container_name(IdC)}}
    /\ net_result = "none"
    /\ readiness = "Launching"
    /\ polls = 0
    /\ resp = NoResp
    /\ error = NoError
    /\ handed = {}
    /\ environ = NoEnviron
    /\ inject_env = NoEnviron
    /\ mcpu = 1
    /\ docker_basedir = NoDir
    /\ flags = <<>>
    /\ sharing = NoSharing
    /\ registered = {}
    /\ fd_open = FALSE
    /\ tmp = "none"
    /\ obj = "absent"
    /\ credentials = NoCredentials
    /\ retries = 0
    /\ host_drives = {}
    /\ drive_bitmask = 0
    /\ peers = [p \in Launches |-> Peer("rilc_network", "none", "none", 0, 0, "none")]
    /\ stream = NodeImages

alone == <<pc, entry, host, build_mode, is_migration, debug, own_image, env_network,
           images, available, required_drives, token, pipeline_id, calls, dirs, files,
           pipeline_ids, rm_result, net_result, readiness, polls, resp, error, handed,
           environ, inject_env, mcpu, docker_basedir, flags, stream,
           drive_bitmask, host_drives, retries, credentials, obj, tmp, fd_open,
           registered, sharing>>

\* `docker network create` of launch p; the runtime refuses a name that exists
two_network(p) ==
    /\ peers[p].pc = "rilc_network"
    /\ LET result == IF network_name \in networks THEN "already_exists" ELSE "created"
       IN  /\ networks' = networks \cup {network_name}
           /\ peers' = [peers EXCEPT
                  ![p].net = result,
                  ![p].pc = IF result = "created" \/ network_error_tolerated(result)
                            THEN "rilc_run" ELSE "raised"]
    /\ UNCHANGED <<alone, containers>>

\* a launch that tries `docker run` again after the runtime refused the name
two_run_retrying(p) ==
    /\ peers[p].pc = "rilc_run"
    /\ peers[p].runs < 2
    /\ IF container_name(pipeline_id) \in containers
       THEN /\ peers' = [peers EXCEPT ![p].run = "rejected", ![p].runs = @ + 1]
            /\ UNCHANGED containers
       ELSE /\ containers' = containers \cup {container_name(pipeline_id)}
            /\ peers' = [peers EXCEPT ![p].run = "ok", ![p].runs = @ + 1,
                                      ![p].manager = "running", ![p].pc = "rilc_poll"]
    /\ UNCHANGED <<alone, networks>>

\* the single `docker run --name conducto_manager_<id>` of launch p; the
\* runtime refuses the name while a container of that name runs, and the
\* refusal is raised
two_run(p) ==
    /\ peers[p].pc = "rilc_run"
    /\ IF container_name(pipeline_id) \in containers
       THEN /\ peers' = [peers EXCEPT ![p].run = "rejected", ![p].runs = @ + 1,
                                      ![p].pc = "raised"]
            /\ UNCHANGED containers
       ELSE /\ containers' = containers \cup {container_name(pipeline_id)}
            /\ peers' = [peers EXCEPT ![p].run = "ok", ![p].runs = @ + 1,
                                      ![p].manager = "running", ![p].pc = "rilc_poll"]
    /\ UNCHANGED <<alone, networks>>

\* one iteration of the readiness loop of launch p
two_poll(p) ==
    /\ peers[p].pc = "rilc_poll"
    /\ peers[p].polls < MaxPolls
    /\ \E data \in StatusResponses :
          peers' = [peers EXCEPT
              ![p].polls = @ + 1,
              ![p].pc = IF is_ready(data) THEN "run_after"
                        ELSE IF ~InDockerPs(container_name(pipeline_id), containers)
                             THEN "raised" ELSE "rilc_poll"]
    /\ UNCHANGED <<alone, networks, containers>>

\* the else branch of the readiness loop of launch p
two_timeout(p) ==
    /\ peers[p].pc = "rilc_poll"
    /\ peers[p].polls >= MaxPolls
    /\ peers' = [peers EXCEPT ![p].pc = "raised"]
    /\ UNCHANGED <<alone, networks, containers>>

\* the manager that launch p started ends; run with --rm, its container goes
two_manager_exit(p) ==
    /\ peers[p].manager = "running"
    /\ containers' = containers \ {container_name(pipeline_id)}
    /\ peers' = [peers EXCEPT ![p].manager = "exited"]
    /\ UNCHANGED <<alone, networks>>

NextTwo ==
    \E p \in Launches :
        \/ two_network(p)
        \/ two_run(p)
        \/ two_poll(p)
        \/ two_timeout(p)
        \/ two_manager_exit(p)

SpecTwo == InitTwo /\ [][NextTwo]_vars

(***************************************************************************)
(* The Path Translator on its own: build() translating the image paths of  *)
(* node graphs in which nodes share image objects and distinct image       *)
(* objects hold equal paths                                                *)
(***************************************************************************)
ImageObjs == {1, 2}
MaxNodes == 3
Streams == UNION {[1..n -> ImageObjs] : n \in 1..MaxNodes}

InitTranslate ==
    /\ entry = "build"
    /\ pc = "build"
    /\ host \in {"wsl", "windows"}
    /\ build_mode = "LOCAL"
    /\ is_migration = FALSE
    /\ debug = FALSE
    /\ own_image = FALSE
    /\ env_network = NoName
    /\ images \in [ImageObjs -> ImageInputs]
    /\ stream \in Streams
    /\ available = Drives
    /\ required_drives = {}
    /\ token = NoToken
    /\ pipeline_id = NoId
    /\ calls = <<>>
    /\ dirs = [d \in DirNames |-> "absent"]
    /\ files = {}
    /\ pipeline_ids = {}
    /\ rm_result = NoRmtree
    /\ networks = {}
    /\ containers = {}
    /\ net_result = "none"
    /\ readiness = "Launching"
    /\ polls = 0
    /\ resp = NoResp
    /\ error = NoError
    /\ handed = {}
    /\ environ = NoEnviron
    /\ inject_env = NoEnviron
    /\ mcpu = 1
    /\ docker_basedir = NoDir
    /\ flags = <<>>
    /\ sharing = NoSharing
    /\ registered = {}
    /\ fd_open = FALSE
    /\ tmp = "none"
    /\ obj = "absent"
    /\ credentials = NoCredentials
    /\ retries = 0
    /\ host_drives = {}
    /\ drive_bitmask = 0
    /\ peers = NoPeers

NextTranslate == build_translate

SpecTranslate == InitTranslate /\ [][NextTranslate]_vars

(***************************************************************************)
(* docker_available_drives() on its own, for every logical-drive bitmask   *)
(* of DriveBits bits                                                       *)
(***************************************************************************)
DriveBits == 5

\* string.ascii_lowercase
letters == << "a", "b", "c", "d", "e", "f", "g", "h", "i", "j", "k", "l", "m",
              "n", "o", "p", "q", "r", "s", "t", "u", "v", "w", "x", "y", "z" >>

\* the binary digits of n, most significant first
RECURSIVE digits(_)
digits(n) ==
    IF n < 2 THEN << IF n = 1 THEN "1" ELSE "0" >>
    ELSE Append(digits(n \div 2), IF n % 2 = 1 THEN "1" ELSE "0")

\* bin(n): the text "0b..." as its characters
bin(n) == << "0", "b" >> \o digits(n)

\* enumerate(bin(drive_bitmask)) filtered by v == "1": the indices, from 0
one_indices(n) == {k - 1 : k \in {j \in DOMAIN bin(n) : bin(n)[j] = "1"}}

InitDrives ==
    /\ entry = "docker_available_drives"
    /\ pc = "drives"
    /\ host \in {"wsl", "windows"}
    /\ build_mode = "LOCAL"
    /\ is_migration = FALSE
    /\ debug = FALSE
    /\ own_image = FALSE
    /\ env_network = NoName
    /\ images = [i \in ImageIds |->
                    [copy_dir |-> NoPath, context |-> NoPath, dockerfile |-> NoPath]]
    /\ available = {}
    /\ required_drives = {}
    /\ token = NoToken
    /\ pipeline_id = NoId
    /\ calls = <<>>
    /\ dirs = [d \in DirNames |-> "absent"]
    /\ files = {}
    /\ pipeline_ids = {}
    /\ rm_result = NoRmtree
    /\ networks = {}
    /\ containers = {}
    /\ net_result = "none"
    /\ readiness = "Launching"
    /\ polls = 0
    /\ resp = NoResp
    /\ error = NoError
    /\ handed = {}
    /\ environ = NoEnviron
    /\ inject_env = NoEnviron
    /\ mcpu = 1
    /\ docker_basedir = NoDir
    /\ flags = <<>>
    /\ sharing = NoSharing
    /\ registered = {}
    /\ fd_open = FALSE
    /\ tmp = "none"
    /\ obj = "absent"
    /\ credentials = NoCredentials
    /\ retries = 0
    /\ peers = NoPeers
    /\ stream = NodeImages
    /\ drive_bitmask \in IF host = "windows" THEN 0..(2^DriveBits - 1) ELSE {0}
    /\ host_drives \in SUBSET {"a", "c", "d", "e"}

\* docker_available_drives(): on WSL the letters wslpath resolves; on Windows
\* the letters picked from the text of bin(drive_bitmask), then those of them
\* whose drive type is fixed
docker_available_drives ==
    /\ pc = "drives"
    /\ IF host = "wsl"
       THEN /\ available' = {letters[k] : k \in {j \in DOMAIN letters :
                                                   letters[j] \in host_drives}}
            /\ pc' = "drives_done" /\ error' = error
       ELSE IF \E i \in one_indices(drive_bitmask) : i + 1 > Len(letters)
            THEN Raise(Err("IndexError", <<>>)) /\ available' = available
            ELSE /\ available' = {d \in {letters[i + 1] : i \in one_indices(drive_bitmask)} :
                                     d \in host_drives}
                 /\ pc' = "drives_done" /\ error' = error
    /\ UNCHANGED <<entry, host, build_mode, is_migration, debug, own_image,
                   env_network, environ, inject_env, mcpu, docker_basedir, flags,
                   peers, stream, drive_bitmask, host_drives, runtime, verifier,
                   localfs, images, required_drives, token, pipeline_id, calls,
                   handed, retries, credentials, obj, tmp, fd_open, registered,
                   sharing>>

NextDrives == docker_available_drives

SpecDrives == InitDrives /\ [][NextDrives]_vars

(***************************************************************************)
(* The credential retry helper of src/data.py: _get_credentials(token)     *)
(* called by pipeline._get_uri() or user._get_uri() on the remote backend  *)
(***************************************************************************)
\* `if retries > 20: break`
RetryLimit == 20

InitCredentials ==
    /\ entry \in {"pipeline._get_uri", "user._get_uri"}
    /\ pc = "creds_loop"
    /\ host = "unix"
    /\ build_mode = "LOCAL"
    /\ is_migration = FALSE
    /\ debug = FALSE
    /\ own_image = FALSE
    /\ env_network = NoName
    /\ images = [i \in ImageIds |->
                    [copy_dir |-> NoPath, context |-> NoPath, dockerfile |-> NoPath]]
    /\ available = {}
    /\ required_drives = {}
    /\ token = "given"
    /\ pipeline_id = IdA
    /\ calls = <<>>
    /\ dirs = [d \in DirNames |-> "absent"]
    /\ files = {}
    /\ pipeline_ids = {}
    /\ rm_result = NoRmtree
    /\ networks = {}
    /\ containers = {}
    /\ net_result = "none"
    /\ readiness = "Launching"
    /\ polls = 0
    /\ resp = NoResp
    /\ error = NoError
    /\ handed = {}
    /\ environ = NoEnviron
    /\ inject_env = NoEnviron
    /\ mcpu = 1
    /\ docker_basedir = NoDir
    /\ flags = <<>>
    /\ sharing = NoSharing
    /\ registered = {}
    /\ fd_open = FALSE
    /\ tmp = "none"
    /\ obj = "absent"
    /\ peers = NoPeers
    /\ stream = NodeImages
    /\ drive_bitmask = 0
    /\ host_drives = {}
    /\ retries = 0
    /\ credentials = NoCredentials

beside_credentials ==
    <<entry, host, build_mode, is_migration, debug, own_image, env_network,
      available, environ, inject_env, mcpu, docker_basedir, flags, peers, stream,
      drive_bitmask, host_drives, runtime, verifier, localfs, images,
      required_drives, pipeline_id, calls, handed, obj, tmp, fd_open,
      registered, sharing>>

\* one pass of `while True`: the try block returns the credentials, or fails
\* in get_refreshed_token or in get_credentials and is retried after a sleep
get_credentials_attempt ==
    /\ pc = "creds_loop"
    /\ ~(retries > RetryLimit)
    /\ \/ /\ token' = "fresh"
          /\ credentials' = "credentials"
          /\ pc' = "creds_returned"
          /\ retries' = retries
       \/ /\ token' \in {token, "fresh"}
          /\ retries' = retries + 1
          /\ UNCHANGED <<credentials, pc>>
    /\ UNCHANGED <<beside_credentials, error>>

\* `if retries > 20: break`: the function ends without a return statement
get_credentials_break ==
    /\ pc = "creds_loop"
    /\ retries > RetryLimit
    /\ credentials' = "None"
    /\ pc' = "creds_returned"
    /\ UNCHANGED <<beside_credentials, error, token, retries>>

\* _get_uri(): credentials['IdentityId'] in the s3 uri
get_uri ==
    /\ pc = "creds_returned"
    /\ IF credentials = "None"
       THEN Raise(Err("TypeError", <<"'NoneType' object is not subscriptable">>))
       ELSE pc' = "uri_returned" /\ error' = error
    /\ UNCHANGED <<beside_credentials, token, retries, credentials>>

NextCredentials ==
    \/ get_credentials_attempt
    \/ get_credentials_break
    \/ get_uri

SpecCredentials == InitCredentials /\ [][NextCredentials]_vars

(***************************************************************************)
(* put(name, file) and puts(name, obj) of the local data backend           *)
(* (src/data.py and src/python/conducto/data.py), step by step, with the   *)
(* file system of the host: rename within a directory is atomic; on        *)
(* Windows os.rename fails when the destination exists or the source is    *)
(* open, and os.remove fails on an open file; shutil.move falls back to    *)
(* copy-then-unlink when os.rename fails                                   *)
(***************************************************************************)
PutEntries == {"data.put", "data.puts", "conducto.data.put", "conducto.data.puts"}
is_puts == entry \in {"data.puts", "conducto.data.puts"}

InitPut ==
    /\ entry \in PutEntries
    /\ pc = "put"
    /\ host \in Hosts
    /\ build_mode = "LOCAL"
    /\ is_migration = FALSE
    /\ debug = FALSE
    /\ own_image = FALSE
    /\ env_network = NoName
    /\ images = [i \in ImageIds |->
                    [copy_dir |-> NoPath, context |-> NoPath, dockerfile |-> NoPath]]
    /\ available = {}
    /\ required_drives = {}
    /\ token = NoToken
    /\ pipeline_id = IdA
    /\ calls = <<>>
    /\ dirs = [d \in DirNames |-> IF d = pipeline_id THEN "whole" ELSE "absent"]
    /\ files = {pipeline_id}
    /\ pipeline_ids = {}
    /\ rm_result = NoRmtree
    /\ networks = {}
    /\ containers = {}
    /\ net_result = "none"
    /\ readiness = "Launching"
    /\ polls = 0
    /\ resp = NoResp
    /\ error = NoError
    /\ handed = {}
    /\ environ = NoEnviron
    /\ inject_env = NoEnviron
    /\ mcpu = 1
    /\ docker_basedir = NoDir
    /\ flags = <<>>
    /\ sharing = NoSharing
    /\ registered = {}
    /\ peers = NoPeers
    /\ stream = NodeImages
    /\ drive_bitmask = 0
    /\ host_drives = {}
    /\ retries = 0
    /\ credentials = NoCredentials
    /\ obj \in {"absent", "old"}
    /\ tmp = "none"
    /\ fd_open = FALSE

beside_put ==
    <<entry, host, build_mode, is_migration, debug, own_image, env_network,
      available, environ, inject_env, mcpu, docker_basedir, flags, peers, stream,
      drive_bitmask, host_drives, retries, credentials, runtime, verifier, localfs,
      images, required_drives, token, pipeline_id, calls, handed, registered,
      sharing>>

\* os.makedirs(dirpath, exist_ok=True); fd, tmppath = tempfile.mkstemp(dir=dirpath)
put_mkstemp ==
    /\ pc = "put"
    /\ tmp' = "empty" /\ fd_open' = TRUE
    /\ pc' = "put_try"
    /\ UNCHANGED <<beside_put, obj, error>>

\* the try block under way: shutil.copy(file, tmppath) in put, f.write(obj)
\* on the descriptor in puts
put_write ==
    /\ pc = "put_try"
    /\ tmp' = "partial"
    /\ pc' = "put_writing"
    /\ UNCHANGED <<beside_put, obj, fd_open, error>>

\* the try block ends well; `with open(fd, "wb")` of puts closes the
\* descriptor, put never closes it
put_written ==
    /\ pc = "put_writing"
    /\ tmp' = "complete"
    /\ fd_open' = IF is_puts THEN FALSE ELSE fd_open
    /\ pc' = "put_move"
    /\ UNCHANGED <<beside_put, obj, error>>

\* os.remove on this host: an open file cannot be removed on Windows
can_remove == host # "windows" \/ ~fd_open

\* the try block raises: `except Exception: os.remove(tmppath); raise`
put_except ==
    /\ pc = "put_writing"
    /\ fd_open' = IF is_puts THEN FALSE ELSE fd_open
    /\ IF host # "windows" \/ ~fd_open'
       THEN tmp' = "none" /\ Raise(Err("WriteError", <<>>))
       ELSE tmp' = tmp /\ Raise(Err("PermissionError", <<"os.remove">>))
    /\ UNCHANGED <<beside_put, obj>>

\* os.rename(tmppath, path) on this host
can_rename == host # "windows" \/ (obj = "absent" /\ ~fd_open)

\* `else: shutil.move(tmppath, path)`: os.rename when it works, else the
\* copy of the fallback begins and truncates the destination
put_move ==
    /\ pc = "put_move"
    /\ IF can_rename
       THEN obj' = "new" /\ tmp' = "none" /\ pc' = "put_done"
       ELSE obj' = "partial" /\ tmp' = tmp /\ pc' = "put_copying"
    /\ UNCHANGED <<beside_put, fd_open, error>>

\* the fallback of shutil.move: the copy ends, then os.unlink(tmppath)
put_copied ==
    /\ pc = "put_copying"
    /\ obj' = "new"
    /\ IF can_remove
       THEN tmp' = "none" /\ pc' = "put_done" /\ error' = error
       ELSE tmp' = tmp /\ Raise(Err("PermissionError", <<"os.unlink">>))
    /\ UNCHANGED <<beside_put, fd_open>>

NextPut ==
    \/ put_mkstemp
    \/ put_write
    \/ put_written
    \/ put_except
    \/ put_move
    \/ put_copied

SpecPut == InitPut /\ [][NextPut]_vars

(***************************************************************************)
(* Two local launches through build() that share a profile: each registers  *)
(* its pipeline, collects stale state, writes its serialization and runs    *)
(* its manager.  The steps of clean_log_dirs are the calls it makes: the    *)
(* listing of the pipelines, os.listdir, and one rmtree for each            *)
(* subdirectory.                                                            *)
(***************************************************************************)
Sharers == {1, 2}
SharerId(p) == IF p = 1 THEN IdA ELSE IdC

\* one launch: its position, its pipeline, clean_log_dirs' pipeline_ids and
\* the rest of its `for subdir in os.listdir(...)`, and whether the manager
\* it ran found the serialization file
Sharer(at, id, live, subdirs, ran) ==
    [pc |-> at, pipeline_id |-> id, pipeline_ids |-> live, subdirs |-> subdirs,
     run |-> ran]

InitShared ==
    /\ entry = "build"
    /\ pc = "shared"
    /\ host = "unix"
    /\ build_mode = "LOCAL"
    /\ is_migration = FALSE
    /\ debug = FALSE
    /\ own_image = FALSE
    /\ env_network = NoName
    /\ images = [i \in ImageIds |->
                    [copy_dir |-> NoPath, context |-> NoPath, dockerfile |-> NoPath]]
    /\ available = {}
    /\ required_drives = {}
    /\ token = "passed"
    /\ pipeline_id = NoId
    /\ calls = <<>>
    /\ dirs \in {[d \in DirNames |-> IF d = IdAB THEN stale ELSE "absent"] :
                    stale \in {"absent", "whole"}}
    /\ files = {d \in DirNames : dirs[d] = "whole"}
    /\ pipeline_ids = {}
    /\ rm_result = NoRmtree
    /\ networks = {}
    /\ containers = {}
    /\ net_result = "none"
    /\ readiness = "Launching"
    /\ polls = 0
    /\ resp = NoResp
    /\ error = NoError
    /\ handed = {}
    /\ environ = NoEnviron
    /\ inject_env = NoEnviron
    /\ mcpu = 1
    /\ docker_basedir = NoDir
    /\ flags = <<>>
    /\ peers = NoPeers
    /\ stream = NodeImages
    /\ drive_bitmask = 0
    /\ host_drives = {}
    /\ retries = 0
    /\ credentials = NoCredentials
    /\ obj = "absent"
    /\ tmp = "none"
    /\ fd_open = FALSE
    /\ registered = {}
    /\ sharing = [p \in Sharers |-> Sharer("build", SharerId(p), {}, {}, "none")]

beside_shared ==
    <<pc, entry, host, build_mode, is_migration, debug, own_image, env_network,
      images, available, required_drives, token, pipeline_id, calls, pipeline_ids,
      rm_result, runtime, verifier, error, handed, environ, inject_env, mcpu,
      docker_basedir, flags, peers, stream, drive_bitmask, host_drives, retries,
      credentials, obj, tmp, fd_open>>

\* build(): pipeline_id = api.Pipeline().create(...)
shared_create(p) ==
    /\ sharing[p].pc = "build"
    /\ registered' = registered \cup {sharing[p].pipeline_id}
    /\ sharing' = [sharing EXCEPT ![p].pc = "local_deploy"]
    /\ UNCHANGED <<beside_shared, dirs, files>>

\* clean_log_dirs: pipelines = api.Pipeline().list(token)
shared_list(p) ==
    /\ sharing[p].pc = "local_deploy"
    /\ sharing' = [sharing EXCEPT ![p].pipeline_ids = registered,
                                  ![p].pc = "listdir"]
    /\ UNCHANGED <<beside_shared, dirs, files, registered>>

\* clean_log_dirs: os.listdir(local_basedir)
shared_listdir(p) ==
    /\ sharing[p].pc = "listdir"
    /\ sharing' = [sharing EXCEPT ![p].subdirs = {d \in DirNames : dirs[d] # "absent"},
                                  ![p].pc = "rmtree"]
    /\ UNCHANGED <<beside_shared, dirs, files, registered>>

\* clean_log_dirs: one pass of the loop over the listed subdirectories, with
\* rmtree(..., ignore_errors=True) when the name is not in pipeline_ids
shared_rmtree(p) ==
    /\ sharing[p].pc = "rmtree"
    /\ \E subdir \in sharing[p].subdirs :
         /\ sharing' = [sharing EXCEPT ![p].subdirs = @ \ {subdir}]
         /\ IF rmtree_called(subdir, dirs, sharing[p].pipeline_ids)
            THEN \E outcome \in RmtreeOutcomes :
                   LET res == [NoRmtree EXCEPT ![subdir] = outcome]
                   IN  /\ dirs' = clean_dirs(dirs, res)
                       /\ files' = clean_files(files, res)
            ELSE UNCHANGED <<dirs, files>>
    /\ UNCHANGED <<beside_shared, registered>>

\* clean_log_dirs: the loop has run out
shared_cleaned(p) ==
    /\ sharing[p].pc = "rmtree"
    /\ sharing[p].subdirs = {}
    /\ sharing' = [sharing EXCEPT ![p].pc = "local_write"]
    /\ UNCHANGED <<beside_shared, dirs, files, registered>>

\* local_deploy(): os.makedirs(local_progdir, exist_ok=True) and the write of
\* the serialization file
shared_write(p) ==
    /\ sharing[p].pc = "local_write"
    /\ LET id == sharing[p].pipeline_id
       IN  /\ dirs' = [dirs EXCEPT ![id] = IF @ = "absent" THEN "whole" ELSE @]
           /\ files' = files \cup {id}
    /\ sharing' = [sharing EXCEPT ![p].pc = "local_update"]
    /\ UNCHANGED <<beside_shared, registered>>

\* local_deploy(): api.Pipeline().update(...), then run_in_local_container:
\* the manager it runs reads the serialization file of its pipeline
shared_run(p) ==
    /\ sharing[p].pc = "local_update"
    /\ sharing' = [sharing EXCEPT
           ![p].run = IF sharing[p].pipeline_id \in files
                      THEN "with_serialization" ELSE "without_serialization",
           ![p].pc = "done"]
    /\ UNCHANGED <<beside_shared, dirs, files, registered>>

NextShared ==
    \E p \in Sharers :
        \/ shared_create(p)
        \/ shared_list(p)
        \/ shared_listdir(p)
        \/ shared_rmtree(p)
        \/ shared_cleaned(p)
        \/ shared_write(p)
        \/ shared_run(p)

SpecShared == InitShared /\ [][NextShared]_vars

(***************************************************************************)
(* Properties                                                              *)
(***************************************************************************)
Ops(S) == {i \in 1..Len(calls) : calls[i].op \in S}
Issued(op) == Ops({op}) # {}
LocalBuild == entry = "build" /\ build_mode = "LOCAL"

\* C1: in a LocalDeploy launch through build(), every `docker network create`
\* and every `docker run` is issued after a CreatePipeline call that returned
\* the PipelineId in use.
C1_CreatePipelineFirst ==
    LocalBuild =>
        \A i \in Ops({"docker_network_create", "docker_run"}) :
            \E j \in 1..(i - 1) :
                /\ calls[j].op = "CreatePipeline"
                /\ calls[j].ok
                /\ calls[j].arg = pipeline_id
                /\ pipeline_id # NoId

C1_Witness == LocalBuild /\ Issued("docker_network_create") /\ Issued("docker_run")

\* C2: on WSL or Windows, once the drive check of build() has been passed with
\* a required drive that is not available, the launch has raised
\* WindowsMapError and nothing else has happened: no credential refresh, no
\* serialization, no CreatePipeline, no PipelineId, no file, no network, no
\* container run.
C2_UnavailableDriveRaisesFirst ==
    ( /\ entry = "build"
      /\ host \in {"wsl", "windows"}
      /\ pc \notin {"build", "build_check"}
      /\ ~(required_drives \subseteq available) )
    => /\ pc = "raised"
       /\ error.kind = "WindowsMapError"
       /\ error.detail[1] \in required_drives \ available
       /\ calls = <<>>
       /\ pipeline_id = NoId
       /\ token = NoToken
       /\ files = {IdC}
       /\ dirs = [d \in DirNames |-> IF d = IdC THEN "whole" ELSE "absent"]
       /\ networks = {}
       /\ readiness = "Launching"

C2_Witness ==
    /\ entry = "build"
    /\ host = "wsl"
    /\ required_drives = {"c", "d"}
    /\ available = {"c"}
    /\ pc = "raised"

\* C3: the verifier is Active only if the status response of that poll had
\* both a status in the active band and a gateway endpoint.
C3_ActiveNeedsBoth ==
    readiness = "Active" => resp.status_in_target /\ resp.pgw

C3_Witness == readiness = "Active" /\ polls = 2

NameListed == \E n \in containers : IsInfix(<<"conducto_manager_">> \o pipeline_id, n)
FirstPoll == pc = "rilc_poll" /\ polls = 0 /\ polls' = 1
GotResponse == calls'[Len(calls) + 1].ok

\* C4 as stated: when the expected name is not in the process list at the
\* first poll, that poll ends in Failed, whatever the status response.
C4_FailedWhateverTheStatus ==
    [][(FirstPoll /\ GotResponse /\ ~NameListed) => readiness' = "Failed"]_vars

\* C4: when the expected name is not in the process list at the first poll and
\* the status response of that poll is not (active band and gateway), that
\* poll ends in Failed and the launch raises: no further poll follows.
C4_FailedOnFirstPoll ==
    [][( /\ FirstPoll
         /\ GotResponse
         /\ ~NameListed
         /\ ~(resp'.status_in_target /\ resp'.pgw) )
       => /\ readiness' = "Failed"
          /\ pc' = "raised"
          /\ error'.kind = "RuntimeError"]_vars

C4_Witness == readiness = "Failed" /\ polls = 1 /\ pc = "raised"

\* C5: the readiness loop never does more than MaxPolls polls, and a launch
\* whose polls all leave it waiting does exactly MaxPolls of them and then
\* raises the timeout error, which names the PipelineId and WAIT_TIME_SECS.
C5_TimedOutAfterAllPolls ==
    /\ polls <= MaxPolls
    /\ readiness \in {"Verifying", "Failed", "TimedOut"}
         => Cardinality(Ops({"GetPipeline"})) = polls
    /\ (pc = "rilc_poll" /\ polls = MaxPolls)
         => ENABLED rilc_timeout /\ ~ENABLED rilc_poll
    /\ readiness = "TimedOut"
         => /\ polls = MaxPolls
            /\ Cardinality(Ops({"GetPipeline"})) = MaxPolls
            /\ Cardinality(Ops({"docker_ps"})) = MaxPolls
            /\ pc = "raised"
            /\ error = Err("RuntimeError",
                           <<"no manager connection to pgw", pipeline_id,
                             WAIT_TIME_SECS>>)

C5_Witness == readiness = "TimedOut" /\ pc = "raised"

LastOp == IF calls = <<>> THEN "none" ELSE calls[Len(calls)].op

\* C6: when the runtime reports that the network already exists the launch
\* does not raise there and goes on to the pull and run of the manager; when
\* `docker network create` fails otherwise the launch raises.
C6_NetworkAlreadyExistsTolerated ==
    /\ net_result = "already_exists"
         => /\ pc # "rilc_network"
            /\ pc = "raised" => LastOp # "docker_network_create"
            /\ pc = "rilc_pull" => error = NoError
    /\ net_result = "other_error"
         => /\ pc = "raised"
            /\ error = Err("CalledProcessError", <<"docker_network_create">>)
            /\ ~Issued("docker_run")

C6_Witness == net_result = "already_exists" /\ Issued("docker_run") /\ pc = "done"

Collected == pc = "cleaned"

\* C7 as stated: after clean_log_dirs no directory of a live id has been
\* touched and no directory of another name is left.
C7_EveryStaleDirDeleted ==
    Collected =>
        \A d \in DirNames :
            /\ d \in pipeline_ids => rm_result[d] = "none"
            /\ d \notin pipeline_ids => dirs[d] = "absent"

\* C7: clean_log_dirs never calls rmtree on a directory of a live id, and a
\* directory of another name is left only when its rmtree met an error; with
\* live ids {A,B}, directories {A,B,C} and no such error exactly C is removed.
C7_OnlyStaleDirsDeleted ==
    Collected =>
        \A d \in DirNames :
            /\ d \in pipeline_ids => rm_result[d] = "none"
            /\ (d \notin pipeline_ids /\ dirs[d] # "absent")
                 => rm_result[d] \in {"partial", "partial_file_left", "intact"}
            /\ rm_result[d] = "removed" => dirs[d] = "absent" /\ d \notin files

C7_Witness ==
    /\ Collected
    /\ pipeline_ids = {IdA, IdAB}
    /\ dirs = [d \in DirNames |-> IF d = IdC THEN "absent" ELSE "whole"]
    /\ rm_result = [d \in DirNames |-> IF d = IdC THEN "removed" ELSE "none"]
    /\ files = {IdA, IdAB}

CoreOps == {"CreatePipeline", "write_serialization", "docker_network_create",
            "docker_run", "GetPipeline", "docker_ps"}
IsCore(c) == c.op \in CoreOps
Core == SelectSeq(calls, IsCore)

\* C8: a local launch through build() that has returned issued one
\* CreatePipeline, then one write of the serialization file under the id, then
\* one network create, then one container run named conducto_manager_<id>,
\* and every poll after these.
C8_LocalLaunchSequence ==
    (LocalBuild /\ pc = "done") =>
        /\ Len(Core) >= 4
        /\ Core[1] = Call("CreatePipeline", pipeline_id, TRUE)
        /\ Core[2] = Call("write_serialization", pipeline_id, TRUE)
        /\ Core[3].op = "docker_network_create"
        /\ Core[4] = Call("docker_run", <<"conducto_manager_">> \o pipeline_id, TRUE)
        /\ \A i \in 5..Len(Core) : Core[i].op \in {"GetPipeline", "docker_ps"}
        /\ pipeline_id \in files

C8_Witness == LocalBuild /\ pc = "done" /\ ~debug /\ polls = 2

\* C9: in a local launch outside debug mode anything is handed to the caller
\* only with the verifier Active; with the verifier Failed or TimedOut nothing
\* has been handed over and the launch has raised.
C9_HandOverOnlyWhenActive ==
    (build_mode = "LOCAL" /\ ~debug) =>
        /\ handed # {} => readiness = "Active"
        /\ readiness \in {"Failed", "TimedOut"}
             => handed = {} /\ pc = "raised" /\ error.kind = "RuntimeError"

C9_Witness ==
    /\ build_mode = "LOCAL"
    /\ ~debug
    /\ handed = {"viewer", "shell", "returned"}

\* C10 as stated: in a CloudDeploy launch anything is handed to the caller
\* only after the manager has been confirmed live.
C10_CloudHandOverAfterVerification ==
    (build_mode = "DEPLOY_TO_CLOUD" /\ handed # {}) => readiness = "Active"

\* C10: in a CloudDeploy launch anything is handed to the caller only after
\* SaveSerialization and then LaunchCloudManager have returned without error;
\* the readiness of the cloud manager is never polled.
C10_CloudHandOverAfterLaunchRequest ==
    build_mode = "DEPLOY_TO_CLOUD" =>
        /\ readiness = "Launching"
        /\ polls = 0
        /\ ~Issued("docker_ps")
        /\ handed # {} =>
             \E i \in 1..Len(calls) : \E j \in (i + 1)..Len(calls) :
                /\ calls[i] = Call("SaveSerialization", pipeline_id, TRUE)
                /\ calls[j] = Call("LaunchCloudManager", pipeline_id, TRUE)

C10_Witness ==
    /\ build_mode = "DEPLOY_TO_CLOUD"
    /\ "viewer" \in handed
    /\ "returned" \in handed

LocalOnlyOps == {"docker_image_inspect", "docker_pull", "docker_network_create",
                 "docker_run", "docker_ps", "write_serialization", "ListPipelines"}
CloudBuild == build_mode = "DEPLOY_TO_CLOUD"

\* C11: a launch in cloud mode calls SaveSerialization and then
\* LaunchCloudManager, in that order; it issues no container-runtime command,
\* writes nothing under the local state directory and never runs the
\* Stale-State Collector
C11_CloudLaunchIsRemoteOnly ==
    CloudBuild =>
        /\ Ops(LocalOnlyOps) = {}
        /\ rm_result = NoRmtree /\ pipeline_ids = {}
        /\ files = {d \in DirNames : dirs[d] = "whole"}
        /\ \A d \in DirNames : dirs[d] \in {"absent", "whole"}
        /\ networks = {} /\ net_result = "none" /\ readiness = "Launching"
        /\ \A j \in Ops({"LaunchCloudManager"}) :
              \E i \in 1..(j - 1) : calls[i] = Call("SaveSerialization", pipeline_id, TRUE)
        /\ pc \in {"run_after", "done"} =>
              \E j \in Ops({"LaunchCloudManager"}) : calls[j].ok

C11_Witness ==
    /\ CloudBuild /\ pc = "done" /\ "returned" \in handed
    /\ \E j \in Ops({"LaunchCloudManager"}) : calls[j].ok

RunFailed == \E j \in Ops({"docker_run"}) : ~calls[j].ok

\* C13: when `docker run` exits non-zero the launch raises, exactly one
\* `docker run` has been issued, and the readiness loop is never entered: no
\* GetPipeline and no `docker ps` follows
C13_FailedRunIsFatal ==
    /\ Cardinality(Ops({"docker_run"})) <= 1
    /\ RunFailed =>
          /\ pc = "raised"
          /\ error = Err("CalledProcessError", <<"docker_run">>)
          /\ LastOp = "docker_run"
          /\ Ops({"GetPipeline", "docker_ps"}) = {}
          /\ readiness = "Launching" /\ polls = 0 /\ resp = NoResp
          /\ handed = {}

C13_Witness ==
    /\ RunFailed /\ pc = "raised"
    /\ container_name(pipeline_id) \in containers

ControlPlaneOps == {"CreatePipeline", "SaveSerialization", "LaunchCloudManager",
                    "ListPipelines", "UpdatePipeline", "GetPipeline"}
RefreshedBefore(j) ==
    \E i \in 1..(j - 1) : calls[i] = Call("get_token_force", <<>>, TRUE)

\* C20 as stated: every launch, however entered and whether or not a token is
\* passed, performs a forced credential refresh before its first control-plane
\* call.
C20_RefreshBeforeControlPlane ==
    \A j \in Ops(ControlPlaneOps) : RefreshedBefore(j)

\* C20: a launch entered through build(), or through
\* launch_from_serialization() without a token, performs exactly one forced
\* credential refresh, before its first control-plane call; a launch entered
\* through launch_from_serialization() with a token performs no refresh and
\* keeps the token it was passed.
C20_RefreshUnlessTokenPassed ==
    /\ Cardinality(Ops({"get_token_force"})) <= 1
    /\ token # "given" => \A j \in Ops(ControlPlaneOps) : RefreshedBefore(j)
    /\ token = "given" =>
          /\ entry = "launch_from_serialization"
          /\ Ops({"get_token_force"}) = {}
    /\ (entry = "launch_from_serialization" /\ pc \notin {"launch", "raised"})
          => token \in {"given", "fresh"}

C20_Witness ==
    /\ entry = "launch_from_serialization"
    /\ token = "fresh"
    /\ Ops(ControlPlaneOps) # {}

Assembled == entry = "run_in_local_container" /\ pc = "rilc_pull"
\* the read-only binds of drive d at MOUNT_LOCATION/<d lowercased>
DriveBinds(d) ==
    {i \in DOMAIN flags :
        flags[i] = Flag("--mount", d, <<"MOUNT_LOCATION", lower(d)>>, TRUE)}
DriveMounts == {i \in DOMAIN flags : flags[i].opt = "--mount" /\ flags[i].key \in Drives}
MountsExactly(drives) ==
    /\ \A d \in Drives : Cardinality(DriveBinds(d)) = IF d \in drives THEN 1 ELSE 0
    /\ DriveMounts = UNION {DriveBinds(d) : d \in Drives}

\* C15 as stated: on Windows and WSL the flags hold exactly one read-only bind
\* mount for each required drive, at MOUNT_LOCATION/<lowercased letter>, and
\* none for a drive that is not required.
C15_MountsAreRequiredDrives ==
    (Assembled /\ host \in {"wsl", "windows"}) => MountsExactly(required_drives)

\* C15: on Windows and WSL the flags hold exactly one read-only bind mount for
\* each drive that docker_available_drives() reports, at
\* MOUNT_LOCATION/<lowercased letter>, whether the pipeline requires the drive
\* or not; every required drive is among them.
C15_MountsAreAvailableDrives ==
    (Assembled /\ host \in {"wsl", "windows"}) =>
        /\ MountsExactly(available)
        /\ \A d \in required_drives : Cardinality(DriveBinds(d)) = 1

C15_Witness ==
    /\ Assembled /\ host = "wsl"
    /\ available = {"c", "d"} /\ required_drives = {"c"}
    /\ Cardinality(DriveMounts) = 2

CredentialMounts == {i \in DOMAIN flags : flags[i].val = <<"/root/.docker">>}

\* C16: whenever the host docker credential directory is present it is
\* mounted into the manager container read-only; when it is absent the flags
\* hold no such mount
C16_CredentialDirReadOnly ==
    Assembled =>
        /\ docker_basedir # NoDir =>
              /\ Cardinality(CredentialMounts) = 1
              /\ \A i \in CredentialMounts : flags[i].key = docker_basedir /\ flags[i].ro
        /\ docker_basedir = NoDir => CredentialMounts = {}

\* the credential directory is mounted when present, writable by the manager
C16_CredentialDirMountedWritable ==
    /\ Assembled /\ docker_basedir # NoDir
    /\ \E i \in CredentialMounts : flags[i] = Flag("-v", docker_basedir, <<"/root/.docker">>, FALSE)

ManagerOf(id) == <<"conducto_manager_">> \o id
NetworkOf(id) == <<"conducto_network_">> \o id
\* the names the flags of `docker run` give, in the state of the launch
NameFlag == docker_flags(FALSE)[3]
NetworkFlag == docker_flags(FALSE)[4]
HostnameFlag == docker_flags(FALSE)[5]
NetworkEnvFlag == docker_flags(FALSE)[12]

\* C17 as stated: in every local launch the network created and attached to
\* is conducto_network_<id> and the container is conducto_manager_<id>,
\* whatever the environment of the launching process.
C17_NamesFromIdAlone ==
    /\ \A j \in Ops({"docker_network_create"}) : calls[j].arg = NetworkOf(pipeline_id)
    /\ \A j \in Ops({"docker_run"}) :
          /\ calls[j].arg = ManagerOf(pipeline_id)
          /\ NetworkFlag = Option("--network", NetworkOf(pipeline_id))

\* C17: in every local launch the container is named conducto_manager_<id>,
\* whatever the environment; the network is conducto_network_<id> when
\* CONDUCTO_NETWORK is unset and the value of CONDUCTO_NETWORK when it is set;
\* the network created is the network the manager is attached to.
C17_NetworkNameFromEnvOrId ==
    LET expected == IF env_network = NoName THEN NetworkOf(pipeline_id)
                    ELSE env_network
    IN  /\ \A j \in Ops({"docker_network_create"}) : calls[j].arg = expected
        /\ \A j \in Ops({"docker_run"}) :
              /\ calls[j].arg = ManagerOf(pipeline_id)
              /\ NameFlag = Option("--name", ManagerOf(pipeline_id))
              /\ HostnameFlag = Option("--hostname", ManagerOf(pipeline_id))
              /\ NetworkFlag = Option("--network", expected)
              /\ NetworkEnvFlag = Env("CONDUCTO_NETWORK", expected)
        /\ net_result = "created" => expected \in networks

C17_Witness ==
    /\ env_network = <<"custom_net">>
    /\ net_result = "created"
    /\ \E j \in Ops({"docker_run"}) : calls[j].ok

AllowListed == {AllowList[i] : i \in DOMAIN AllowList}
EnvEntries(name) == {i \in DOMAIN flags : flags[i].opt = "-e" /\ flags[i].key = name}
\* the names the code itself gives a value to
OwnEnvNames == {"CONDUCTO_BASE_DIR_VERIFY", "CONDUCTO_LOCAL_BASE_DIR",
                "CONDUCTO_LOCAL_HOSTNAME", "CONDUCTO_NETWORK", "WINDOWS_HOST",
                "CONDUCTO_LOG_LEVEL"}
NotInjected(name) == name \notin DOMAIN inject_env

FixedEnvNames == {"CONDUCTO_BASE_DIR_VERIFY", "CONDUCTO_LOCAL_BASE_DIR",
                  "CONDUCTO_LOCAL_HOSTNAME", "CONDUCTO_NETWORK"}
\* docker gives the container the value of the last -e entry of a name
LastEntry(name) == CHOOSE i \in EnvEntries(name) : \A j \in EnvEntries(name) : j <= i
Collisions == DOMAIN inject_env \cap (AllowListed \cup FixedEnvNames)

\* C19: for every key that is both in inject_env and in the pass-through or
\* fixed environment set, the entry of inject_env comes later in the flags
\* than the other entry, so the container sees the caller's value
C19_InjectedEntryComesLast ==
    Assembled =>
        \A k \in Collisions :
            /\ EnvEntries(k) # {}
            /\ flags[LastEntry(k)] = Env(k, inject_env[k])
            /\ \A i \in EnvEntries(k) \ {LastEntry(k)} : flags[i].val # inject_env[k]

C19_Witness ==
    /\ Assembled
    /\ Collisions = {"CONDUCTO_URL", "CONDUCTO_NETWORK"}
    /\ Cardinality(EnvEntries("CONDUCTO_URL")) = 2
    /\ Cardinality(EnvEntries("CONDUCTO_NETWORK")) = 2

LeftNetwork == default_network(IdC)
LeftManager == container_name(IdC)
StaleLeftover ==
    /\ Collected /\ IdC \notin pipeline_ids
    /\ rm_result[IdC] = "removed"

\* C14 as stated: the network and the unverified manager container that a
\* failed launch left behind are reclaimed by the Stale-State Collector of the
\* next local launch.
C14_LeftoverReclaimed ==
    StaleLeftover => LeftNetwork \notin networks /\ LeftManager \notin containers

\* C14: the Stale-State Collector of the next local launch removes only local
\* state directories; every network and every container a failed launch left
\* behind is still there when the collector has run.
C14_CollectorKeepsNetworksAndContainers ==
    [][networks' = networks /\ containers' = containers]_vars

C14_Witness ==
    /\ StaleLeftover /\ dirs[IdC] = "absent"
    /\ LeftNetwork \in networks /\ LeftManager \in containers

Ran(result) == {p \in Launches : peers[p].run = result}
PastNetwork(p) == peers[p].pc # "rilc_network"
NetworkStepsSucceed ==
    /\ \A p \in Launches :
          PastNetwork(p) => /\ peers[p].net \in {"created", "already_exists"}
                            /\ peers[p].run = "none" => peers[p].pc = "rilc_run"
    /\ (\A p \in Launches : PastNetwork(p))
          => \E p, q \in Launches : /\ peers[p].net = "created"
                                    /\ peers[q].net = "already_exists"
RejectedRunIsFinal ==
    /\ \A p \in Launches : peers[p].runs <= 1
    /\ \A p \in Ran("rejected") : peers[p].pc = "raised" /\ peers[p].runs = 1

\* C12 as stated: under every interleaving of two local launches of one
\* pipeline both network-create steps succeed, at most one `docker run`
\* succeeds, and the launch whose `docker run` is rejected raises without a
\* second `docker run`.
C12_AtMostOneRunSucceeds ==
    /\ NetworkStepsSucceed
    /\ Cardinality(Ran("ok")) <= 1
    /\ RejectedRunIsFinal

\* C12: under every interleaving of two local launches of one pipeline both
\* network-create steps succeed (one creates, the other tolerates
\* already-exists); a `docker run` issued while a manager container of that
\* name is running is rejected, so the two managers never run side by side,
\* but both `docker run` calls succeed when the first manager has ended
\* before the second call; a launch whose `docker run` is rejected raises
\* without a second `docker run`.
C12_NoTwoManagersSideBySide ==
    /\ NetworkStepsSucceed
    /\ Cardinality({p \in Launches : peers[p].manager = "running"}) <= 1
    /\ Cardinality(Ran("ok")) = 2 => \E p \in Launches : peers[p].manager = "exited"
    /\ RejectedRunIsFinal

C12_Witness ==
    /\ Cardinality(Ran("ok")) = 1
    /\ \E p \in Ran("rejected") : peers[p].pc = "raised" /\ peers[p].net = "already_exists"

\* the calls run_in_local_container() issues come after UpdatePipeline
InContainerLaunch(i) == \E u \in Ops({"UpdatePipeline"}) : u < i
ManagerPulls == {i \in Ops({"docker_pull"}) : InContainerLaunch(i)}

\* C21: when the manager image is of the conducto/ namespace a pull of it is
\* issued before `docker run`; when that pull fails the launch raises and no
\* `docker run` is issued
C21_PullBeforeRun ==
    own_image =>
        /\ \A j \in Ops({"docker_run"}) :
              \E i \in ManagerPulls : i < j /\ calls[i].ok
        /\ \A i \in ManagerPulls :
              ~calls[i].ok =>
                  /\ pc = "raised"
                  /\ error = Err("CalledProcessError", <<"docker_pull">>)
                  /\ Ops({"docker_run"}) = {}
                  /\ i = Len(calls)
        /\ Cardinality(ManagerPulls) <= 1

C21_Witness ==
    /\ own_image /\ pc = "raised"
    /\ \E i \in ManagerPulls : ~calls[i].ok

Submitted == \E j \in Ops({"docker_run"}) : calls[j].ok
\* the flags of the `docker run` of this launch
SubmittedFlags == docker_flags(FALSE)
HasFlag(fl, f) == \E i \in DOMAIN fl : fl[i] = f

\* C22: in debug mode the flags of `docker run` have -it in place of -d and
\* CONDUCTO_LOG_LEVEL=0; after a successful `docker run` no GetPipeline and no
\* `docker ps` is issued and run() returns without opening the viewer or
\* connecting the shell
C22_DebugSkipsVerifierAndHandOver ==
    (debug /\ Submitted) =>
        /\ SubmittedFlags[1] = Option("-it", <<>>)
        /\ ~HasFlag(SubmittedFlags, Option("-d", <<>>))
        /\ HasFlag(SubmittedFlags, Env("CONDUCTO_LOG_LEVEL", <<"0">>))
        /\ Ops({"GetPipeline", "docker_ps"}) = {}
        /\ readiness = "Launching" /\ polls = 0
        /\ pc \in {"run_after", "done"}
        /\ handed \subseteq {"returned"}
        /\ pc = "done" => handed = {"returned"}
        /\ ENABLED run_after \/ pc = "done"

C22_Witness ==
    /\ debug /\ Submitted
    /\ pc = "done" /\ handed = {"returned"}

Reached(o) == \E k \in DOMAIN stream : stream[k] = o
\* how often the translation loop takes up image object o
TimesListed(o) == Cardinality({k \in DOMAIN imagelist : imagelist[k] = o})
\* a path after one translation: in docker's format, same drive, same remainder
TranslatedOnce(path) == [drive |-> path.drive, sub |-> path.sub, form |-> "docker"]

\* C23: in one translation pass every image object that some node has is
\* taken up exactly once, however many nodes share it, and each of its
\* non-empty path fields is translated once; two objects with equal fields are
\* each translated; objects of no node and empty fields are left alone
C23_EachImageObjectTranslatedOnce ==
    [][build_translate =>
         \A o \in DOMAIN images :
            /\ TimesListed(o) = IF Reached(o) THEN 1 ELSE 0
            /\ \A f \in Fields :
                  images'[o][f] = IF Reached(o) /\ images[o][f] # NoPath
                                  THEN TranslatedOnce(images[o][f])
                                  ELSE images[o][f]]_vars

C23_Witness ==
    /\ pc = "build_check"
    /\ stream = <<1, 2, 1>>
    /\ images[1] = images[2]
    /\ images[1].context.form = "docker" /\ images[2].context.form = "docker"
    /\ required_drives = {"c"}

\* bit k of the bitmask
BitSet(n, k) == (n \div (2 ^ k)) % 2 = 1
\* the drive letters the bitmask names: bit 0 is a, bit 1 is b, ...
BitLetters(n) == {letters[k + 1] : k \in {j \in 0..(Len(letters) - 1) : BitSet(n, j)}}
ListedOnWindows == host = "windows" /\ pc \in {"drives_done", "raised"}

\* C24: on Windows, for every logical-drive bitmask, docker_available_drives
\* returns exactly the letters whose bit is set in the bitmask (bit 0 = a,
\* bit 1 = b, ...) and whose drive type is fixed
C24_DrivesOfTheBitmask ==
    ListedOnWindows =>
        /\ pc = "drives_done"
        /\ available = BitLetters(drive_bitmask) \cap host_drives

\* drives A: and C: exist and are fixed, and c and e are looked at instead
C24_WrongLettersReturned ==
    /\ ListedOnWindows /\ drive_bitmask = 5
    /\ host_drives = {"a", "c"}
    /\ available = {"c"}

HelperReturned == pc \in {"creds_returned", "uri_returned"} \/ credentials # NoCredentials

\* C25: when every attempt of _get_credentials fails the helper stops after
\* 21 attempts and raises to its caller; when some attempt succeeds it returns
\* that attempt's credentials
C25_ExhaustedRetriesRaise ==
    /\ retries <= RetryLimit + 1
    /\ HelperReturned => credentials = "credentials" /\ retries <= RetryLimit

\* after 21 failed attempts the helper returns None
C25_NoneReturned ==
    /\ pc = "creds_returned"
    /\ retries = RetryLimit + 1
    /\ credentials = "None" /\ error = NoError

StaleDirs == {d \in DirNames : rm_result[d] # "none"}

\* C26: after the Stale-State Collector has run every stale directory is
\* removed as a whole subtree or left wholly intact, also when deleting
\* entries inside it fails; none is left partially deleted
C26_StaleDirsWholeOrGone ==
    Collected => \A d \in StaleDirs : dirs[d] \in {"absent", "whole"}

\* a stale directory that lost some of its entries and kept others
C26_PartlyDeleted ==
    /\ Collected
    /\ \E d \in StaleDirs : /\ rm_result[d] = "partial"
                            /\ dirs[d] = "partial" /\ d \notin files

WriteFailed == pc = "raised" /\ error.kind \in {"WriteError", "PermissionError"}
                             /\ error.detail # <<"os.unlink">>

\* C27: in the local backend put and puts are atomic: the object at `name` is
\* at every moment what it was before (or absent) or the complete new content,
\* never a partial write; when writing the temporary file fails the temporary
\* file is removed and the object at `name` is unchanged
C27_PutIsAtomic ==
    /\ obj \in {"absent", "old", "new"}
    /\ obj = "new" => pc \in {"put_done", "raised"} /\ tmp = "none"
    /\ WriteFailed => tmp = "none" /\ obj \in {"absent", "old"}

\* on Windows the object that was there is overwritten in place
C27_PartialObjectVisible ==
    /\ host = "windows" /\ is_puts
    /\ pc = "put_copying" /\ obj = "partial"

\* where rename replaces the destination (Linux, WSL) put and puts are atomic
C27_AtomicWhereRenameReplaces == host # "windows" => C27_PutIsAtomic

InVerifier == pc = "rilc_poll"
LeftVerifier == readiness # "Launching" /\ ~InVerifier
\* the three outcomes, and the status query that raised instead of answering
EndedActive == readiness = "Active" /\ polls >= 1
EndedFailed ==
    /\ readiness = "Failed" /\ pc = "raised"
    /\ error = Err("RuntimeError", <<"error starting the docker container">>)
EndedTimedOut ==
    /\ readiness = "TimedOut" /\ pc = "raised" /\ polls = MaxPolls
    /\ error.kind = "RuntimeError"
QueryRaised ==
    /\ readiness = "Verifying" /\ pc = "raised"
    /\ error = Err("ApiError", <<"GetPipeline">>)
    /\ ~calls[Len(calls)].ok

\* C28: for every sequence of status and process-list responses the
\* non-debug readiness loop ends within MaxPolls polls in exactly one of
\* Active (normal return), Failed (container absent) or TimedOut: inside the
\* loop a next step is always possible, every step of the loop but the one
\* exit of the manager is a counted poll, and the loop is left with one of the
\* three only, but for a status query that raises instead of answering
C28_VerifierEndsInOneOfThree ==
    /\ [](/\ polls <= MaxPolls
          /\ InVerifier => /\ readiness = "Verifying" /\ ~debug
                           /\ ENABLED rilc_poll \/ ENABLED rilc_timeout
          /\ LeftVerifier => EndedActive \/ EndedFailed \/ EndedTimedOut \/ QueryRaised
          /\ (build_mode = "LOCAL" /\ ~debug /\ pc \in {"run_after", "done"})
                => EndedActive)
    /\ [][(InVerifier /\ pc' = "rilc_poll") =>
              \/ polls' = polls + 1
              \/ polls' = polls /\ containers' # containers /\ containers' \subseteq containers
         ]_vars

C28_Witness ==
    /\ EndedActive /\ polls = MaxPolls /\ pc = "done"
    /\ container_name(pipeline_id) \notin containers

\* a running container is named exactly conducto_manager_<id>
ExactlyNamed == container_name(pipeline_id) \in containers
\* the name is found in the process list only inside a longer name
OnlyContained == ~ExactlyNamed /\ NameListed
PollNotReady ==
    /\ InVerifier /\ polls' = polls + 1
    /\ GotResponse /\ ~is_ready(resp')

\* C30 as stated: a poll whose status response is not ready, taken while no
\* running container is named exactly conducto_manager_<id>, ends in Failed,
\* also when another running container's name contains that string.
C30_PresentOnlyIfExactlyNamed ==
    [][(PollNotReady /\ ~ExactlyNamed) => readiness' = "Failed"]_vars

\* the verifier has polled the process list, the manager of this pipeline is
\* gone, the manager of the pipeline whose id extends this id is running,
\* and the verifier went on to its time-out
C30_ContainedNameKeepsVerifying ==
    /\ OnlyContained
    /\ pipeline_id = IdA /\ container_name(IdAB) \in containers
    /\ Ops({"docker_ps"}) # {}
    /\ readiness = "TimedOut"

Written(p) == sharing[p].pc \in {"local_update", "done"}
RanManager(p) == sharing[p].pc = "done"
\* a step that takes away, or takes from, the directory of a pipeline that is
\* registered and has its serialization file
RemovesRegistered ==
    \E d \in registered :
        /\ dirs[d] = "whole" /\ d \in files
        /\ dirs'[d] # "whole" \/ d \notin files'

\* C29 as stated: under every interleaving of two local launches that share a
\* profile no step removes the state directory or the serialization file of a
\* registered pipeline, and each launch's serialization file exists when its
\* own manager is run.
C29_CollectorSparesTheOtherLaunch ==
    /\ [][~RemovesRegistered]_vars
    /\ [](\A p \in Sharers : RanManager(p) => sharing[p].run = "with_serialization")

\* launch 2 has run its manager without its serialization file: launch 1
\* listed the pipelines before launch 2 registered and reached the directory
\* of launch 2 in its loop after launch 2 had written it
C29_SerializationGoneAtRun ==
    /\ RanManager(2) /\ sharing[2].run = "without_serialization"
    /\ SharerId(2) \in registered
    /\ SharerId(2) \notin sharing[1].pipeline_ids
    /\ sharing[1].pc \in {"rmtree", "local_write", "local_update", "done"}

====
